---- MODULE Spec2Model ----
(***************************************************************************)
(* Model of claw-browser-automation:                                       *)
(*   - the action engine (executeAction / retryLoop / runAttempt) of       *)
(*     src/actions/semantic.ts;                                            *)
(*   - the browser pool (BrowserPool) of src/pool/browser-pool.ts with its *)
(*     health monitor and sessions.                                        *)
(* Every asynchronous function is cut at its awaits: one action per        *)
(* synchronous stretch of code.                                            *)
(***************************************************************************)
EXTENDS Integers, Sequences, FiniteSets, TLC

\* ------------------------------------------------------------------------
\* Bounds of the model (not program constants)
\* ------------------------------------------------------------------------
MaxRetriesBound == 2   \* largest explicit value of opts.retries
MaxChain == 3          \* longest selector strategy chain
maxContexts == 2       \* PoolConfig.maxContexts of the modelled pool
MaxEvents == 4         \* events from outside the pool in one run: calls of acquire,
                       \* release, destroy and shutdown, unhealthy reports of the
                       \* health monitor, browser disconnects, page crashes
MaxCycles == 20        \* acquire/release cycles of the sequential caller
MaxHandleChain == 4    \* longest selector chain a handle is registered with
MaxHandles == 1        \* registrations of handles in one run
MaxRegistered == 2     \* registrations in a run of a registry of one-strategy handles
MaxClickRetries == 2   \* largest opts.retries of a click
MaxTraceOps == 5       \* calls of record and clearSession in a run of the trace
MaxTraceClears == 1    \* calls of clearSession among them
MaxMutations == 3      \* DOM mutations observed during one waitForDomStability
MaxSessionsKept == 2   \* largest maxSessions of an ArtifactManager
MaxActionCalls == 3    \* calls of executeAction on one context, nested ones included
MaxMetaItems == 1      \* metadata items one body records
MaxRemaps == 3         \* remaps of one handle in one run
MaxHealthEvents == 6   \* events of a run of the health monitor alone: track, untrack,
                       \* stop, timer firings, sessions marked unhealthy from outside

\* ------------------------------------------------------------------------
\* Program constants
\* ------------------------------------------------------------------------
DEFAULT_RETRIES == 3
MAX_CONSECUTIVE_FAILURES == 3
RESOLVE_TIMEOUT_MS == 5000   \* default timeoutMs of register and resolve
DEDUP_CLICK_MS == 500        \* click: window of the duplicate-click guard
CLICK_STABILITY_MS == 200    \* click: quiet period passed to waitForDomStability
STABILITY_CAP_MS == 5000     \* click: cap of the timeout of waitForDomStability
STRATEGY_WAIT_MS == 2000     \* resolveWithConfidence: cap of one strategy's waitFor

\* ------------------------------------------------------------------------
\* Errors (src/errors.ts)
\* ------------------------------------------------------------------------
\* Codes of the BrowserAutomationError subclasses.
TypedCodes ==
    {"TARGET_NOT_FOUND", "STALE_ELEMENT", "ASSERTION_FAILED",
     "NAVIGATION_INTERRUPTED", "TIMEOUT_EXCEEDED", "SESSION_UNHEALTHY"}

\* A thrown value: cls is the code of a typed error, "Error" for a plain
\* Error and "NonError" for a thrown value that is not an Error at all.
MkError(cls, message) == [cls |-> cls, message |-> message]

\* The value `undefined` of lastCaughtError.
Undefined == [cls |-> "undefined", message |-> ""]

TargetNotFoundError(message) == MkError("TARGET_NOT_FOUND", message)
NavigationInterruptedError(message) == MkError("NAVIGATION_INTERRUPTED", message)
StaleElementError(message) == MkError("STALE_ELEMENT", message)

\* err instanceof BrowserAutomationError
IsBrowserAutomationError(err) == err.cls \in TypedCodes

\* The values a body, a precondition or a postcondition throws in the model.
Thrown ==
    { TargetNotFoundError("target not found"),
      MkError("ASSERTION_FAILED", "verification failed"),
      NavigationInterruptedError("navigation failed"),
      MkError("Error", "boom"),
      MkError("NonError", "thrown string") }

\* structuredError absent from a result
NoStructured == [code |-> "none", message |-> ""]

\* toStructuredError: a record for a typed error, otherwise only the string
\* (modelled as NoStructured: the caller tests typeof structured === "object").
toStructuredError(err) ==
    IF IsBrowserAutomationError(err)
    THEN [code |-> err.cls, message |-> err.message]
    ELSE NoStructured

\* ------------------------------------------------------------------------
\* Action engine: inputs
\* ------------------------------------------------------------------------
Urls == {"about:blank", "page:new"}

\* opts.retries: <<>> is undefined, <<n>> is the number n.
RetriesOptions == {<<>>} \cup { <<n>> : n \in 0..MaxRetriesBound }

\* opts._selectorStrategies: <<>> stands for "no chain attached"; a chain is
\* the array [...selector] of distinct strategies 1..n.
Chains == { [i \in 1..n |-> i] : n \in 0..MaxChain }

ActionOptionsSet ==
    [retries : RetriesOptions, precondition : BOOLEAN, postcondition : BOOLEAN,
     chainAttached : BOOLEAN]

VARIABLES
    opts,                \* ActionOptions of the call
    selectorStrategies,  \* opts._selectorStrategies, mutated by rotation
    pageUrl,             \* ctx.page.url()
    pc,                  \* position inside executeAction / retryLoop
    maxRetries,          \* executeAction: opts.retries ?? DEFAULT_RETRIES
    startUrl,            \* executeAction: URL recorded at action start
    attempt,             \* retryLoop: loop variable
    lastError,           \* retryLoop: lastError
    lastCaughtError,     \* retryLoop: lastCaughtError
    result,              \* the ActionResult returned
    popupDismisser,      \* executeAction: the PopupDismisser of this call
    traceConfigured,     \* ctx.trace && ctx.sessionId
    recorded,            \* the entries this call passed to ctx.trace.record
    \* observations of the run, written by no code path of the engine
    origStrategies,      \* the chain as attached
    bodyRuns,            \* number of times fn was called
    attemptsStarted,     \* number of attempts that reached runAttempt
    lastOutcome,         \* what ended the most recent attempt
    typedEarlier,        \* an attempt before the most recent threw a typed error
    tnfCaught,           \* TargetNotFoundErrors caught so far
    urlChanged,          \* the page URL was changed since action start
    bodyRanInAttempt,    \* fn was called in the most recent attempt
    preStopped           \* attempts ended by the precondition (false or throw)

engineVars ==
    <<opts, selectorStrategies, pageUrl, pc, maxRetries, startUrl, attempt,
      lastError, lastCaughtError, result, origStrategies, bodyRuns,
      attemptsStarted, lastOutcome, typedEarlier, tnfCaught, urlChanged,
      bodyRanInAttempt, preStopped, popupDismisser, traceConfigured, recorded>>

\* the PopupDismisser and the trace of the call
envelopeVars == <<popupDismisser, traceConfigured, recorded>>

\* ------------------------------------------------------------------------
\* Browser pool: state
\* ------------------------------------------------------------------------
VARIABLES
    _browser,        \* BrowserPool._browser: 0 is null, else the browser
    connected,       \* the browsers for which isConnected() is true
    _launching,      \* BrowserPool._launching: 0 is null, else the launch promise
    pendingLaunches, \* the launch promises not yet settled
    launchCount,     \* number of chromium.launch calls so far
    _shuttingDown,   \* BrowserPool._shuttingDown
    _maxContexts,    \* BrowserPool._maxContexts
    _sessions,       \* BrowserPool._sessions: Map id -> session, as set of entries
    sessionObjs,     \* every BrowserSession constructed, in construction order
    _tracked,        \* HealthMonitor._tracked: Map id -> TrackedSession
    _timer,          \* HealthMonitor._timer is set
    acq,             \* the calls of acquire in progress
    rec,             \* the calls of _recoverUnhealthy in progress
    rem,             \* the calls of release and destroy in progress
    shut,            \* the call of shutdown
    held,            \* the sessions acquire returned and no caller gave back yet
    poolProfile,     \* the callers of this pool pass a profile to acquire
    events,          \* number of events from outside so far
    \* observations, read by no code path of the pool
    lastAcquire,     \* how the acquire settled last ended
    lastRecovery,    \* <<failed object, replacement object>> of the recovery finished last
    profileStore,    \* the session whose snapshot the profile directory holds, 0 for none
    lastRemoval,     \* observation: the release or destroy completed last
    history          \* observation: the session each session object was created to
                     \* replace (0: created by acquire), the sessions whose release
                     \* or destroy completed, whether shutdown resolved and acquire
                     \* was not called since

poolVars ==
    <<_browser, connected, _launching, pendingLaunches, launchCount, _shuttingDown,
      _sessions, sessionObjs, _tracked, _timer, acq, rec, rem, shut, held,
      poolProfile, _maxContexts, events, lastAcquire, lastRecovery, profileStore, lastRemoval,
      history>>

\* ------------------------------------------------------------------------
\* Health monitor: state of the probes
\* ------------------------------------------------------------------------
VARIABLES
    consecutiveFailures, \* TrackedSession.consecutiveFailures, by session object
    probes,              \* number of calls of _probe in progress, by session object
    \* observations, read by no code path of the monitor
    failStreak,          \* failed probes since the last valid readyState, by session object
    unhealthyCalls       \* number of calls of onUnhealthy, by session object

healthVars == <<consecutiveFailures, probes, failStreak, unhealthyCalls>>

\* ------------------------------------------------------------------------
\* Handle registry: state
\* ------------------------------------------------------------------------
VARIABLES
    _handles,        \* HandleRegistry._handles: function handleId -> ElementHandle
    handlesMade,     \* number of handles registered so far (the next nanoid)
    matching,        \* the page: the selectors that match an attached element
    lastResolution   \* observation: what the last call of resolve returned, as long
                     \* as the page is the one it resolved against

registryVars == <<_handles, handlesMade, matching, lastResolution>>

\* ------------------------------------------------------------------------
\* Selector resolution alone: state
\* ------------------------------------------------------------------------
VARIABLES
    selectorCall     \* observation: the last call of resolveWithConfidence, its
                     \* arguments and what it returned

selectorVars == <<selectorCall>>

\* ------------------------------------------------------------------------
\* The click action: state
\* ------------------------------------------------------------------------
VARIABLES
    clickOpts,       \* the options of the call: retries, timeoutMs, postcondition
    clickPc,         \* position inside executeAction / retryLoop for this click
    clickAttempt,    \* retryLoop: attempt
    clock,           \* Date.now(), in ms since the call
    _retryState,     \* ctx._retryState; lastClickTime 0 is undefined
    clickUrlChanged, \* ctx.page.url() differs from the URL at action start
    clickOk,         \* ActionResult.ok of the click, once it is done
    clicks,          \* observation: the times at which locator.click clicked
    lastSkipped      \* observation: the last attempt was skipped as a duplicate

clickVars ==
    <<clickOpts, clickPc, clickAttempt, clock, _retryState, clickUrlChanged, clickOk,
      clicks, lastSkipped>>

\* ------------------------------------------------------------------------
\* The action trace: state
\* ------------------------------------------------------------------------
VARIABLES
    traceOpts,      \* the options the ActionTrace was constructed with
    trace,          \* the ActionTrace object, one field per private member
    traceNow,       \* Date.now() of the last recorded entry
    traceOps,       \* calls made so far: record and clearSession together, clearSession
    sessionsUsed,   \* how many of the sessions have been recorded into
    lastTraceOp,    \* observation: the last call made
    recordedFor,    \* observation: per session, what was recorded since its last clear
    withoutSession  \* observation: per session, the same trace after the same calls
                    \* except the calls of record for that session

traceVars ==
    <<traceOpts, trace, traceNow, traceOps, sessionsUsed, lastTraceOp, recordedFor,
      withoutSession>>

\* ------------------------------------------------------------------------
\* waitForDomStability: state
\* ------------------------------------------------------------------------
VARIABLES
    domWait     \* one call of waitForDomStability: its arguments, the page's clock,
                \* the two timers (a time in ms, or -1 when not pending), the
                \* mutations observed and the state of the promise

\* ------------------------------------------------------------------------
\* Artifact retention: state
\* ------------------------------------------------------------------------
VARIABLES
    artifacts   \* the base directory of an ArtifactManager (per name: absent, a
                \* file or a directory, with its mtimeMs), _maxSessions, and what
                \* the last call of enforceRetention returned

\* ------------------------------------------------------------------------
\* Approval requests: state
\* ------------------------------------------------------------------------
VARIABLES
    approval    \* one call of browser_request_approval: ctx.approvalProvider and what
                \* it does, ctx.autoApprove, process.env.BROWSER_AUTO_APPROVE, and
                \* the value of "approved" in the result

\* ------------------------------------------------------------------------
\* Action log: state
\* ------------------------------------------------------------------------
VARIABLES
    actionLog   \* an ActionLog (its three options), the input of one call of log,
                \* and the sanitized input that was serialized into the row

\* ------------------------------------------------------------------------
\* Actions calling actions on one context: state
\* ------------------------------------------------------------------------
VARIABLES
    nesting     \* one ActionContext: ctx._traceMeta and ctx._retryState, the calls of
                \* executeAction that are running on it (innermost last), the
                \* trace entries recorded, and what each body has collected itself

\* the components that are modelled one call at a time
moreVars == <<domWait, artifacts, approval, actionLog, nesting>>

\* the components that are modelled on their own
aloneVars == <<selectorVars, clickVars, traceVars, moreVars>>

\* what the actions of one component leave alone
nonEngineVars == <<poolVars, healthVars, registryVars, aloneVars>>
nonPoolVars == <<engineVars, registryVars, aloneVars>>
nonRegistryVars == <<engineVars, poolVars, healthVars, aloneVars>>
nonSelectorVars ==
    <<engineVars, poolVars, healthVars, registryVars, clickVars, traceVars, moreVars>>
nonClickVars ==
    <<engineVars, poolVars, healthVars, registryVars, selectorVars, traceVars, moreVars>>
nonTraceVars ==
    <<engineVars, poolVars, healthVars, registryVars, selectorVars, clickVars, moreVars>>
nonMoreVars ==
    <<engineVars, poolVars, healthVars, registryVars, selectorVars, clickVars, traceVars>>
nonDomWaitVars == <<nonMoreVars, artifacts, approval, actionLog, nesting>>
nonArtifactVars == <<nonMoreVars, domWait, approval, actionLog, nesting>>
nonApprovalVars == <<nonMoreVars, domWait, artifacts, actionLog, nesting>>
nonActionLogVars == <<nonMoreVars, domWait, artifacts, approval, nesting>>
nonNestingVars == <<nonMoreVars, domWait, artifacts, approval, actionLog>>

vars == <<engineVars, poolVars, healthVars, registryVars, aloneVars>>

NoResult ==
    [ok |-> FALSE, error |-> "", structuredError |-> NoStructured,
     retries |-> 0, set |-> FALSE]

\* new PopupDismisser(page, logger): no timer, no dialog handler
PopupConstructed == [_timer |-> FALSE, _dialogHandler |-> FALSE]

EngineInit ==
    /\ opts \in ActionOptionsSet
    /\ selectorStrategies \in Chains
    /\ (opts.chainAttached <=> selectorStrategies # <<>>)
    /\ origStrategies = selectorStrategies
    /\ pageUrl = "about:blank"
    /\ pc = "idle"
    /\ maxRetries = 0
    /\ startUrl = ""
    /\ attempt = 0
    /\ lastError = ""
    /\ lastCaughtError = Undefined
    /\ result = NoResult
    /\ popupDismisser = PopupConstructed
    /\ traceConfigured \in BOOLEAN
    /\ recorded = <<>>
    /\ bodyRuns = 0
    /\ attemptsStarted = 0
    /\ lastOutcome = "none"
    /\ typedEarlier = FALSE
    /\ tnfCaught = 0
    /\ urlChanged = FALSE
    /\ bodyRanInAttempt = FALSE
    /\ preStopped = 0

\* ------------------------------------------------------------------------
\* Action engine: pure parts
\* ------------------------------------------------------------------------
\* err instanceof Error ? err.message : String(err)
ErrorMessage(err) == err.message

checkNavigationGuard_late(att, currentUrl, start) ==
    IF att <= 1
    THEN Undefined
    ELSE IF currentUrl # start
         THEN NavigationInterruptedError("page navigated during retry")
         ELSE Undefined

checkNavigationGuard(att, currentUrl, start) ==
    IF att = 0
    THEN Undefined
    ELSE IF currentUrl # start
         THEN NavigationInterruptedError("page navigated during retry")
         ELSE Undefined

rotateStrategies_drop(strategies) ==
    IF Len(strategies) <= 1
    THEN strategies
    ELSE Tail(strategies)

rotateStrategies(strategies) ==
    IF Len(strategies) <= 1
    THEN strategies
    ELSE Append(Tail(strategies), Head(strategies))

\* handleRetryError: the chain after the catch of err
handleRetryError(err, chainAttached, strategies) ==
    IF err.cls = "TARGET_NOT_FOUND" /\ chainAttached
    THEN rotateStrategies(strategies)
    ELSE strategies

buildFailureResult_assertion(lastErr, lastCaught, maxR) ==
    [ok |-> FALSE,
     error |-> lastErr,
     structuredError |->
        IF lastCaught # Undefined
        THEN toStructuredError(lastCaught)
        ELSE toStructuredError(MkError("ASSERTION_FAILED", lastErr)),
     retries |-> maxR,
     set |-> TRUE]

\* buildFailureResult: lastCaughtError ?? lastError decides structuredError
buildFailureResult(lastErr, lastCaught, maxR) ==
    [ok |-> FALSE,
     error |-> lastErr,
     structuredError |->
        IF lastCaught # Undefined THEN toStructuredError(lastCaught) ELSE NoStructured,
     retries |-> maxR,
     set |-> TRUE]

buildSuccessResult_max(att, maxR) ==
    [ok |-> TRUE, error |-> "", structuredError |-> NoStructured,
     retries |-> maxR, set |-> TRUE]

\* executeAction, success branch: retries is loopResult.attempt
buildSuccessResult(att, maxR) ==
    [ok |-> TRUE, error |-> "", structuredError |-> NoStructured,
     retries |-> att, set |-> TRUE]

loopContinues_short(att, maxR) == att < maxR

\* retryLoop: the test of the for loop
loopContinues(att, maxR) == att <= maxR

caughtAtAttemptStart_keep(previous) == previous

\* retryLoop: lastCaughtError = undefined at the top of every iteration
caughtAtAttemptStart(previous) == Undefined

preconditionFails_never(present, value) == FALSE

\* runAttempt: opts.precondition && !(await opts.precondition(ctx))
preconditionFails(present, value) == present /\ ~value

\* runAttempt: opts.postcondition && !(await opts.postcondition(ctx))
postconditionFails(present, value) == present /\ ~value

\* PopupDismisser.start(): the dialog listener and the sweep timer
PopupStart(dismisser) ==
    IF dismisser._timer THEN dismisser
    ELSE [_timer |-> TRUE, _dialogHandler |-> TRUE]

PopupStop_timerOnly(dismisser) == [dismisser EXCEPT !._timer = FALSE]

\* PopupDismisser.stop(): clearInterval and removeListener
PopupStop(dismisser) == [_timer |-> FALSE, _dialogHandler |-> FALSE]

recordTraceEntry_silent(configured, entries, res) == entries

\* recordTraceEntry: nothing without a trace and a session id; an empty
\* error string is left out of the entry
recordTraceEntry(configured, entries, res) ==
    IF ~configured THEN entries
    ELSE Append(entries, [ok |-> res.ok, error |-> res.error, retries |-> res.retries])

\* ------------------------------------------------------------------------
\* Action engine: steps
\* ------------------------------------------------------------------------
\* executeAction returns res: the trace entry is recorded on the way, the
\* finally block stops the popup dismisser
Returns(res) ==
    /\ recorded' = recordTraceEntry(traceConfigured, recorded, res)
    /\ popupDismisser' = PopupStop(popupDismisser)
    /\ UNCHANGED traceConfigured

\* executeAction up to the call of retryLoop
ExecuteActionStart ==
    /\ pc = "idle"
    /\ maxRetries' = (IF opts.retries = <<>> THEN DEFAULT_RETRIES ELSE opts.retries[1])
    /\ startUrl' = pageUrl
    /\ attempt' = 0
    /\ lastError' = ""
    /\ lastCaughtError' = Undefined
    /\ pc' = "loop"
    /\ popupDismisser' = PopupStart(popupDismisser)
    /\ UNCHANGED <<opts, selectorStrategies, pageUrl, result, origStrategies,
                   bodyRuns, attemptsStarted, lastOutcome, typedEarlier,
                   tnfCaught, urlChanged, bodyRanInAttempt, preStopped,
                   traceConfigured, recorded>>
    /\ UNCHANGED nonEngineVars

\* retryLoop: loop test, reset of lastCaughtError, navigation guard; on loop
\* exit or guard hit, executeAction builds the failure result
RetryLoopHead ==
    /\ pc = "loop"
    /\ IF loopContinues(attempt, maxRetries)
       THEN LET navCheck == checkNavigationGuard(attempt, pageUrl, startUrl) IN
            /\ lastCaughtError' = caughtAtAttemptStart(lastCaughtError)
            /\ typedEarlier' = (typedEarlier \/ lastOutcome = "threwTyped")
            /\ IF navCheck # Undefined
               THEN /\ result' = buildFailureResult(navCheck.message, navCheck, maxRetries)
                    /\ Returns(result')
                    /\ lastOutcome' = "navGuard"
                    /\ pc' = "done"
                    /\ UNCHANGED <<attemptsStarted, bodyRanInAttempt>>
               ELSE /\ attemptsStarted' = attemptsStarted + 1
                    /\ bodyRanInAttempt' = FALSE
                    /\ lastOutcome' = "running"
                    /\ pc' = "pre"
                    /\ UNCHANGED <<result, envelopeVars>>
       ELSE /\ result' = buildFailureResult(lastError, lastCaughtError, maxRetries)
            /\ Returns(result')
            /\ pc' = "done"
            /\ UNCHANGED <<lastCaughtError, attemptsStarted, lastOutcome, typedEarlier,
                           bodyRanInAttempt>>
    /\ UNCHANGED <<opts, selectorStrategies, pageUrl, maxRetries, startUrl, attempt,
                   lastError, origStrategies, bodyRuns, tnfCaught, urlChanged,
                   preStopped>>
    /\ UNCHANGED nonEngineVars

\* catch (err) of retryLoop
CatchError(err) ==
    /\ lastCaughtError' = err
    /\ lastError' = ErrorMessage(err)
    /\ selectorStrategies' = handleRetryError(err, opts.chainAttached, selectorStrategies)
    /\ tnfCaught' = (IF err.cls = "TARGET_NOT_FOUND" THEN tnfCaught + 1 ELSE tnfCaught)
    /\ lastOutcome' = (IF IsBrowserAutomationError(err) THEN "threwTyped" ELSE "threwUntyped")
    /\ pc' = "after"

\* runAttempt: the precondition returns value, or throws
AttemptPrecondition ==
    /\ pc = "pre"
    /\ \/ \E value \in (IF opts.precondition THEN BOOLEAN ELSE {TRUE}) :
             IF preconditionFails(opts.precondition, value)
             THEN /\ lastError' = "precondition failed"
                  /\ lastOutcome' = (IF value THEN lastOutcome ELSE "preFalse")
                  /\ preStopped' = preStopped + 1
                  /\ pc' = "after"
                  /\ UNCHANGED <<lastCaughtError, selectorStrategies, tnfCaught>>
             ELSE /\ lastOutcome' = (IF value THEN lastOutcome ELSE "preFalse")
                  /\ pc' = "body"
                  /\ UNCHANGED <<lastError, lastCaughtError, selectorStrategies,
                                 tnfCaught, preStopped>>
       \/ /\ opts.precondition
          /\ \E err \in Thrown : CatchError(err)
          /\ preStopped' = preStopped + 1
    /\ UNCHANGED <<opts, pageUrl, maxRetries, startUrl, attempt, result,
                   origStrategies, bodyRuns, attemptsStarted, typedEarlier,
                   urlChanged, bodyRanInAttempt>>
    /\ UNCHANGED envelopeVars
    /\ UNCHANGED nonEngineVars

\* runAttempt: await fn(ctx, timeoutMs); the body may navigate the page
AttemptBody ==
    /\ pc = "body"
    /\ bodyRuns' = bodyRuns + 1
    /\ bodyRanInAttempt' = TRUE
    /\ \E u \in Urls :
          /\ pageUrl' = u
          /\ urlChanged' = (urlChanged \/ u # pageUrl)
    /\ \/ /\ pc' = "post"
          /\ UNCHANGED <<lastError, lastCaughtError, selectorStrategies, tnfCaught,
                         lastOutcome>>
       \/ \E err \in Thrown : CatchError(err)
    /\ UNCHANGED <<opts, maxRetries, startUrl, attempt, result, origStrategies,
                   attemptsStarted, typedEarlier, preStopped>>
    /\ UNCHANGED envelopeVars
    /\ UNCHANGED nonEngineVars

\* runAttempt: the postcondition returns value, or throws; on success
\* retryLoop returns and executeAction builds the success result
AttemptPostcondition ==
    /\ pc = "post"
    /\ \/ \E value \in (IF opts.postcondition THEN BOOLEAN ELSE {TRUE}) :
             IF postconditionFails(opts.postcondition, value)
             THEN /\ lastError' = "postcondition failed"
                  /\ lastOutcome' = "postFalse"
                  /\ pc' = "after"
                  /\ UNCHANGED <<lastCaughtError, selectorStrategies, tnfCaught, result,
                                 envelopeVars>>
             ELSE /\ result' = buildSuccessResult(attempt, maxRetries)
                  /\ Returns(result')
                  /\ lastOutcome' = "success"
                  /\ pc' = "done"
                  /\ UNCHANGED <<lastError, lastCaughtError, selectorStrategies, tnfCaught>>
       \/ /\ opts.postcondition
          /\ \E err \in Thrown : CatchError(err)
          /\ UNCHANGED <<result, envelopeVars>>
    /\ UNCHANGED <<opts, pageUrl, maxRetries, startUrl, attempt, origStrategies,
                   bodyRuns, attemptsStarted, typedEarlier, urlChanged,
                   bodyRanInAttempt, preStopped>>
    /\ UNCHANGED nonEngineVars

\* retryLoop: if (attempt < maxRetries) await backoff(attempt); without a
\* backoff the loop increments attempt at once
Backoff ==
    /\ pc = "after"
    /\ IF attempt < maxRetries
       THEN pc' = "backoff" /\ UNCHANGED attempt
       ELSE pc' = "loop" /\ attempt' = attempt + 1
    /\ UNCHANGED <<opts, selectorStrategies, pageUrl, maxRetries, startUrl, lastError,
                   lastCaughtError, result, origStrategies, bodyRuns, attemptsStarted,
                   lastOutcome, typedEarlier, tnfCaught, urlChanged,
                   bodyRanInAttempt, preStopped>>
    /\ UNCHANGED envelopeVars
    /\ UNCHANGED nonEngineVars

\* the backoff timer fires: attempt++
BackoffDone ==
    /\ pc = "backoff"
    /\ attempt' = attempt + 1
    /\ pc' = "loop"
    /\ UNCHANGED <<opts, selectorStrategies, pageUrl, maxRetries, startUrl, lastError,
                   lastCaughtError, result, origStrategies, bodyRuns, attemptsStarted,
                   lastOutcome, typedEarlier, tnfCaught, urlChanged,
                   bodyRanInAttempt, preStopped>>
    /\ UNCHANGED envelopeVars
    /\ UNCHANGED nonEngineVars

\* The page navigates by itself (redirect, popup click) while the engine is
\* suspended at an await.
PageNavigates ==
    /\ pc \in {"pre", "post", "backoff"}
    /\ \E u \in Urls \ {pageUrl} : pageUrl' = u
    /\ urlChanged' = TRUE
    /\ UNCHANGED <<opts, selectorStrategies, pc, maxRetries, startUrl, attempt,
                   lastError, lastCaughtError, result, origStrategies, bodyRuns,
                   attemptsStarted, lastOutcome, typedEarlier, tnfCaught,
                   bodyRanInAttempt, preStopped>>
    /\ UNCHANGED envelopeVars
    /\ UNCHANGED nonEngineVars

\* A call inside the try block of executeAction that no catch wraps (the
\* logger, ctx.page.url(), ctx.trace.record) throws: the error leaves
\* executeAction through the finally block.
TryBlockThrows ==
    /\ pc \in {"loop", "after"}
    /\ pc' = "threw"
    /\ popupDismisser' = PopupStop(popupDismisser)
    /\ UNCHANGED <<opts, selectorStrategies, pageUrl, maxRetries, startUrl, attempt,
                   lastError, lastCaughtError, result, origStrategies, bodyRuns,
                   attemptsStarted, lastOutcome, typedEarlier, tnfCaught, urlChanged,
                   bodyRanInAttempt, preStopped, traceConfigured, recorded>>
    /\ UNCHANGED nonEngineVars

EngineNext ==
    \/ ExecuteActionStart
    \/ RetryLoopHead
    \/ AttemptPrecondition
    \/ AttemptBody
    \/ AttemptPostcondition
    \/ Backoff
    \/ BackoffDone
    \/ PageNavigates

\* the engine where the calls that no catch wraps may throw
ThrowingNext ==
    \/ ExecuteActionStart
    \/ RetryLoopHead
    \/ AttemptPrecondition
    \/ AttemptBody
    \/ AttemptPostcondition
    \/ Backoff
    \/ BackoffDone
    \/ PageNavigates
    \/ TryBlockThrows


\* ------------------------------------------------------------------------
\* Browser pool: helpers
\* ------------------------------------------------------------------------
\* Map operations on a set of entries [id, obj]
MapHas(m, id) == \E e \in m : e.id = id
MapDelete_keep(m, id) == m

MapDelete(m, id) == { e \in m : e.id # id }
MapSet(m, id, o) == MapDelete(m, id) \cup {[id |-> id, obj |-> o]}
MapGet(m, id) == (CHOOSE e \in m : e.id = id).obj
MapValues(m) == { e.obj : e \in m }

\* the sequence without its i-th element
RemoveAt(seq, i) == SubSeq(seq, 1, i - 1) \o SubSeq(seq, i + 1, Len(seq))

\* nanoid(12): an id no session was given before
nanoid == Len(sessionObjs) + 1

\* new BrowserSession({context, page, profile, logger})
BrowserSession(profile) ==
    [id |-> nanoid, healthy |-> TRUE, closed |-> FALSE, profile |-> profile]

\* this._browser?.isConnected()
BrowserConnected == _browser # 0 /\ _browser \in connected

poolLimitReached_off(size, max) == size > max

\* acquire: this._sessions.size >= this._maxContexts
poolLimitReached(size, max) == size >= max

\* _ensureBrowser: where the caller continues
EnsureBrowserOutcome ==
    IF BrowserConnected
    THEN [pc |-> "haveBrowser", launch |-> 0, browser |-> _browser]
    ELSE IF _launching # 0
         THEN [pc |-> "awaitLaunch", launch |-> _launching, browser |-> 0]
         ELSE [pc |-> "awaitLaunch", launch |-> launchCount + 1, browser |-> 0]

\* _ensureBrowser: this._launching = this._launchBrowser() when needed
EnsureBrowserEffect ==
    IF ~BrowserConnected /\ _launching = 0
    THEN /\ _launching' = launchCount + 1
         /\ launchCount' = launchCount + 1
         /\ pendingLaunches' = pendingLaunches \cup {launchCount + 1}
    ELSE UNCHANGED <<_launching, launchCount, pendingLaunches>>

\* the elements of a finite set of numbers in increasing order
RECURSIVE SortedSeq(_)
SortedSeq(S) ==
    IF S = {} THEN <<>>
    ELSE LET m == CHOOSE x \in S : \A y \in S : x <= y
         IN <<m>> \o SortedSeq(S \ {m})

\* session.markUnhealthy() on every object of objs
MarkUnhealthy(objs) ==
    [o \in DOMAIN sessionObjs |->
        IF o \in objs THEN [sessionObjs[o] EXCEPT !.healthy = FALSE]
        ELSE sessionObjs[o]]

\* session.close() completed on every object of objs
Closed(objs) ==
    [o \in DOMAIN sessionObjs |->
        IF o \in objs THEN [sessionObjs[o] EXCEPT !.healthy = FALSE, !.closed = TRUE]
        ELSE sessionObjs[o]]

RecoveryStarted_always(o) ==
    IF ~MapHas(_sessions, sessionObjs[o].id)
    THEN <<>>
    ELSE << [pc |-> "snapshot", session |-> o, launch |-> 0, browser |-> 0] >>

\* _recoverUnhealthy up to its first await, for the session object o: the
\* call now in progress, or none when it returns at once
RecoveryStarted(o) ==
    IF _shuttingDown \/ ~MapHas(_sessions, sessionObjs[o].id)
    THEN <<>>
    ELSE << [pc |-> "snapshot", session |-> o, launch |-> 0, browser |-> 0] >>

RECURSIVE RecoveriesStarted(_)
RecoveriesStarted(objSeq) ==
    IF objSeq = <<>> THEN <<>>
    ELSE RecoveryStarted(Head(objSeq)) \o RecoveriesStarted(Tail(objSeq))

\* HealthMonitor.untrack
Untrack(id) ==
    /\ _tracked' = MapDelete(_tracked, id)
    /\ _timer' = (IF MapDelete(_tracked, id) = {} THEN FALSE ELSE _timer)

NoShutdown == [pc |-> "idle", closing |-> {}, browser |-> 0]

NoHistory == [replaces |-> <<>>, removed |-> {}, shutdownResolved |-> FALSE]

\* new BrowserPool({maxContexts})
PoolConstructed(configMaxContexts) ==
    /\ _maxContexts = configMaxContexts
    /\ _browser = 0
    /\ connected = {}
    /\ _launching = 0
    /\ pendingLaunches = {}
    /\ launchCount = 0
    /\ _shuttingDown = FALSE
    /\ _sessions = {}
    /\ sessionObjs = <<>>
    /\ _tracked = {}
    /\ _timer = FALSE
    /\ acq = <<>>
    /\ rec = <<>>
    /\ rem = <<>>
    /\ shut = NoShutdown
    /\ held = {}
    /\ poolProfile \in BOOLEAN
    /\ events = 0
    /\ lastAcquire = "none"
    /\ lastRecovery = <<0, 0>>
    /\ profileStore = 0
    /\ lastRemoval = [session |-> 0, saved |-> FALSE]
    /\ history = NoHistory

PoolInit == PoolConstructed(maxContexts)

\* ------------------------------------------------------------------------
\* Browser pool: acquire
\* ------------------------------------------------------------------------
\* acquire up to the await of _ensureBrowser, or its rejection at the limit
acquire ==
    /\ IF poolLimitReached(Cardinality(_sessions), _maxContexts)
       THEN /\ lastAcquire' = "pool limit reached"
            /\ UNCHANGED <<acq, _launching, launchCount, pendingLaunches>>
       ELSE /\ acq' = Append(acq, [pc |-> EnsureBrowserOutcome.pc,
                                   launch |-> EnsureBrowserOutcome.launch,
                                   browser |-> EnsureBrowserOutcome.browser,
                                   profile |-> poolProfile])
            /\ EnsureBrowserEffect
            /\ UNCHANGED lastAcquire
    /\ UNCHANGED <<_browser, connected, _shuttingDown, _sessions, sessionObjs,
                   _tracked, _timer, rec, rem, shut, held, poolProfile, _maxContexts,
                   lastRecovery>>
    /\ UNCHANGED <<profileStore, lastRemoval>>
    /\ history' = [history EXCEPT !.shutdownResolved = FALSE]
    /\ UNCHANGED <<nonPoolVars, healthVars>>

\* a call of acquire, one of the events from outside
AcquireCall ==
    /\ events < MaxEvents
    /\ events' = events + 1
    /\ acquire

\* acquire from the browser on: newContext, newPage, new BrowserSession,
\* restore and goto are over; _sessions.set, _health.track, return
AcquireFinish(i) ==
    /\ i \in DOMAIN acq
    /\ acq[i].pc = "haveBrowser"
    /\ LET o == Len(sessionObjs) + 1
           session == BrowserSession(acq[i].profile) IN
       /\ sessionObjs' = Append(sessionObjs, session)
       /\ _sessions' = MapSet(_sessions, session.id, o)
       /\ _tracked' = MapSet(_tracked, session.id, o)
       /\ _timer' = TRUE
       /\ held' = held \cup {o}
    /\ acq' = RemoveAt(acq, i)
    /\ lastAcquire' = "session"
    /\ UNCHANGED <<_browser, connected, _launching, pendingLaunches, launchCount,
                   _shuttingDown, rec, rem, shut, poolProfile, _maxContexts, events, lastRecovery>>
    /\ UNCHANGED <<nonPoolVars, healthVars>>
    /\ UNCHANGED <<profileStore, lastRemoval>>
    /\ history' = [history EXCEPT !.replaces = Append(@, 0)]

\* acquire: newContext, newPage, restore or goto throws (browser gone,
\* navigation failed); nothing is pooled
AcquireFails(i) ==
    /\ i \in DOMAIN acq
    /\ acq[i].pc = "haveBrowser"
    /\ acq' = RemoveAt(acq, i)
    /\ lastAcquire' = "context failed"
    /\ UNCHANGED <<_browser, connected, _launching, pendingLaunches, launchCount,
                   _shuttingDown, _sessions, sessionObjs, _tracked, _timer, rec, rem,
                   shut, held, poolProfile, _maxContexts, events, lastRecovery>>
    /\ UNCHANGED <<nonPoolVars, healthVars>>
    /\ UNCHANGED <<profileStore, lastRemoval>>
    /\ UNCHANGED history

\* ------------------------------------------------------------------------
\* Browser pool: launch and disconnect
\* ------------------------------------------------------------------------
\* the calls of calls that do not await the launch promise p
NotAwaiting(calls, p) ==
    SelectSeq(calls, LAMBDA c : ~(c.pc = "awaitLaunch" /\ c.launch = p))

\* the calls of calls, those that await the launch promise p given the browser
Resumed(calls, p) ==
    [k \in DOMAIN calls |->
        IF calls[k].pc = "awaitLaunch" /\ calls[k].launch = p
        THEN [calls[k] EXCEPT !.pc = "haveBrowser", !.browser = p]
        ELSE calls[k]]

\* chromium.launch resolves: _launchBrowser sets _browser, the finally of
\* the _ensureBrowser that started it clears _launching, every awaiting
\* caller gets the browser
LaunchResolves(p) ==
    /\ p \in pendingLaunches
    /\ pendingLaunches' = pendingLaunches \ {p}
    /\ connected' = connected \cup {p}
    /\ _browser' = p
    /\ _launching' = 0
    /\ acq' = Resumed(acq, p)
    /\ rec' = Resumed(rec, p)
    /\ UNCHANGED <<launchCount, _shuttingDown, _sessions, sessionObjs, _tracked, _timer,
                   rem, shut, held, poolProfile, _maxContexts, events, lastAcquire, lastRecovery>>
    /\ UNCHANGED <<nonPoolVars, healthVars>>
    /\ UNCHANGED <<profileStore, lastRemoval>>
    /\ UNCHANGED history

\* chromium.launch rejects: the finally clears _launching, every awaiting
\* acquire rejects, every awaiting recovery logs and gives up
LaunchRejects(p) ==
    /\ p \in pendingLaunches
    /\ pendingLaunches' = pendingLaunches \ {p}
    /\ _launching' = 0
    /\ acq' = NotAwaiting(acq, p)
    /\ rec' = NotAwaiting(rec, p)
    /\ lastAcquire' = (IF NotAwaiting(acq, p) # acq THEN "launch failed" ELSE lastAcquire)
    /\ UNCHANGED <<_browser, connected, launchCount, _shuttingDown, _sessions,
                   sessionObjs, _tracked, _timer, rem, shut, held, poolProfile, _maxContexts, events,
                   lastRecovery>>
    /\ UNCHANGED <<nonPoolVars, healthVars>>
    /\ UNCHANGED <<profileStore, lastRemoval>>
    /\ UNCHANGED history

\* browser.on("disconnected"): _browser = null, every pooled session is
\* marked unhealthy and handed to _handleUnhealthy
BrowserDisconnects(b) ==
    /\ events < MaxEvents
    /\ events' = events + 1
    /\ b \in connected
    /\ connected' = connected \ {b}
    /\ _browser' = 0
    /\ sessionObjs' = MarkUnhealthy(MapValues(_sessions))
    /\ rec' = rec \o RecoveriesStarted(SortedSeq(MapValues(_sessions)))
    /\ UNCHANGED <<_launching, pendingLaunches, launchCount, _shuttingDown, _sessions,
                   _tracked, _timer, acq, rem, shut, held, poolProfile, _maxContexts, lastAcquire,
                   lastRecovery>>
    /\ UNCHANGED <<nonPoolVars, healthVars>>
    /\ UNCHANGED <<profileStore, lastRemoval>>
    /\ UNCHANGED history

\* ------------------------------------------------------------------------
\* Health monitor
\* ------------------------------------------------------------------------
\* _recordFailure reaching maxFailures consecutive failed probes of the
\* tracked, healthy session o: session.markUnhealthy(), then onUnhealthy,
\* which is the pool's _handleUnhealthy
HealthReportsUnhealthy(o) ==
    /\ events < MaxEvents
    /\ events' = events + 1
    /\ _timer
    /\ o \in MapValues(_tracked)
    /\ sessionObjs[o].healthy
    /\ sessionObjs' = MarkUnhealthy({o})
    /\ rec' = rec \o RecoveryStarted(o)
    /\ UNCHANGED <<_browser, connected, _launching, pendingLaunches, launchCount,
                   _shuttingDown, _sessions, _tracked, _timer, acq, rem, shut, held,
                   poolProfile, _maxContexts, lastAcquire, lastRecovery>>
    /\ UNCHANGED <<nonPoolVars, healthVars>>
    /\ UNCHANGED <<profileStore, lastRemoval>>
    /\ UNCHANGED history

\* page.on("crash") of a pooled session: only the flag changes
PageCrashes(o) ==
    /\ events < MaxEvents
    /\ events' = events + 1
    /\ o \in MapValues(_sessions)
    /\ sessionObjs[o].healthy
    /\ ~sessionObjs[o].closed
    /\ sessionObjs' = MarkUnhealthy({o})
    /\ UNCHANGED <<_browser, connected, _launching, pendingLaunches, launchCount,
                   _shuttingDown, _sessions, _tracked, _timer, acq, rec, rem, shut, held,
                   poolProfile, _maxContexts, lastAcquire, lastRecovery>>
    /\ UNCHANGED <<nonPoolVars, healthVars>>
    /\ UNCHANGED <<profileStore, lastRemoval>>
    /\ UNCHANGED history

\* ------------------------------------------------------------------------
\* Browser pool: _recoverUnhealthy
\* ------------------------------------------------------------------------
\* session.snapshot() settled (or threw): untrack, delete, call session.close()
RecoverSnapshotDone(j) ==
    /\ j \in DOMAIN rec
    /\ rec[j].pc = "snapshot"
    /\ Untrack(sessionObjs[rec[j].session].id)
    /\ _sessions' = MapDelete(_sessions, sessionObjs[rec[j].session].id)
    /\ rec' = [rec EXCEPT ![j].pc = "closing"]
    /\ UNCHANGED <<_browser, connected, _launching, pendingLaunches, launchCount,
                   _shuttingDown, sessionObjs, acq, rem, shut, held, poolProfile, _maxContexts, events,
                   lastAcquire, lastRecovery>>
    /\ UNCHANGED <<nonPoolVars, healthVars>>
    /\ UNCHANGED <<profileStore, lastRemoval>>
    /\ UNCHANGED history

\* session.close() settled; _ensureBrowser is called
RecoverClosed(j) ==
    /\ j \in DOMAIN rec
    /\ rec[j].pc = "closing"
    /\ sessionObjs' = Closed({rec[j].session})
    /\ rec' = [rec EXCEPT ![j].pc = EnsureBrowserOutcome.pc,
                          ![j].launch = EnsureBrowserOutcome.launch,
                          ![j].browser = EnsureBrowserOutcome.browser]
    /\ EnsureBrowserEffect
    /\ UNCHANGED <<_browser, connected, _shuttingDown, _sessions, _tracked, _timer, acq,
                   rem, shut, held, poolProfile, _maxContexts, events, lastAcquire, lastRecovery>>
    /\ UNCHANGED <<nonPoolVars, healthVars>>
    /\ UNCHANGED <<profileStore, lastRemoval>>
    /\ UNCHANGED history

\* from the browser on: newContext, newPage, new BrowserSession for the
\* replacement, replacement.restore are over;
\* _sessions.set(replacement.id, replacement), _health.track(replacement)
RecoverFinish(j) ==
    /\ j \in DOMAIN rec
    /\ rec[j].pc = "haveBrowser"
    /\ LET r == Len(sessionObjs) + 1
           replacement == BrowserSession(sessionObjs[rec[j].session].profile) IN
       /\ sessionObjs' = Append(sessionObjs, replacement)
       /\ _sessions' = MapSet(_sessions, replacement.id, r)
       /\ _tracked' = MapSet(_tracked, replacement.id, r)
       /\ _timer' = TRUE
       /\ lastRecovery' = <<rec[j].session, r>>
    /\ rec' = RemoveAt(rec, j)
    /\ UNCHANGED <<_browser, connected, _launching, pendingLaunches, launchCount,
                   _shuttingDown, acq, rem, shut, held, poolProfile, _maxContexts, events, lastAcquire>>
    /\ UNCHANGED <<nonPoolVars, healthVars>>
    /\ UNCHANGED <<profileStore, lastRemoval>>
    /\ history' = [history EXCEPT !.replaces = Append(@, rec[j].session)]

\* newContext, newPage or restore threw: the catch logs, nothing is pooled
RecoverFails(j) ==
    /\ j \in DOMAIN rec
    /\ rec[j].pc = "haveBrowser"
    /\ rec' = RemoveAt(rec, j)
    /\ UNCHANGED <<_browser, connected, _launching, pendingLaunches, launchCount,
                   _shuttingDown, _sessions, sessionObjs, _tracked, _timer, acq, rem,
                   shut, held, poolProfile, _maxContexts, events, lastAcquire, lastRecovery>>
    /\ UNCHANGED <<nonPoolVars, healthVars>>
    /\ UNCHANGED <<profileStore, lastRemoval>>
    /\ UNCHANGED history

\* ------------------------------------------------------------------------
\* Browser pool: release and destroy
\* ------------------------------------------------------------------------
\* release(session) / destroy(session.id): with a profile up to the await
\* of session.snapshot(); without one the whole call: untrack, delete,
\* session.close(). release takes a session a caller holds, destroy the id
\* of a pooled one.
removal(o, kind) ==
    /\ kind = "release" => o \in held
    /\ kind = "destroy" => o \in MapValues(_sessions)
    /\ \A k \in DOMAIN rem : rem[k].session # o
    /\ held' = held \ {o}
    /\ IF sessionObjs[o].profile
       THEN /\ rem' = Append(rem, [pc |-> "persist", session |-> o])
            /\ UNCHANGED <<_sessions, _tracked, _timer, sessionObjs, lastRemoval, history>>
       ELSE /\ Untrack(sessionObjs[o].id)
            /\ _sessions' = MapDelete(_sessions, sessionObjs[o].id)
            /\ sessionObjs' = Closed({o})
            /\ lastRemoval' = [session |-> o, saved |-> FALSE]
            /\ history' = [history EXCEPT !.removed = @ \cup {o}]
            /\ UNCHANGED rem
    /\ UNCHANGED <<_browser, connected, _launching, pendingLaunches, launchCount,
                   _shuttingDown, acq, rec, shut, poolProfile, _maxContexts, lastAcquire,
                   lastRecovery, profileStore>>
    /\ UNCHANGED <<nonPoolVars, healthVars>>

\* a call of release or destroy, one of the events from outside
RemovalCall(o, kind) ==
    /\ events < MaxEvents
    /\ events' = events + 1
    /\ removal(o, kind)

RemovalPersisted_blocked(k) ==
    /\ k \in DOMAIN rem
    /\ rem[k].pc = "persist"
    /\ \E saved \in BOOLEAN :
          /\ saved => ~sessionObjs[rem[k].session].closed
          /\ profileStore' = (IF saved THEN rem[k].session ELSE profileStore)
          /\ lastRemoval' = [session |-> rem[k].session, saved |-> saved]
          /\ history' = [history EXCEPT !.removed = @ \cup {rem[k].session}]
          /\ IF saved
             THEN /\ Untrack(sessionObjs[rem[k].session].id)
                  /\ _sessions' = MapDelete(_sessions, sessionObjs[rem[k].session].id)
                  /\ sessionObjs' = Closed({rem[k].session})
             ELSE UNCHANGED <<_tracked, _timer, _sessions, sessionObjs>>
    /\ rem' = RemoveAt(rem, k)
    /\ UNCHANGED <<_browser, connected, _launching, pendingLaunches, launchCount,
                   _shuttingDown, acq, rec, shut, held, poolProfile, _maxContexts, events, lastAcquire,
                   lastRecovery>>
    /\ UNCHANGED <<nonPoolVars, healthVars>>

\* _persistProfileSnapshot settled: session.snapshot() resolved and
\* saveProfileSnapshot wrote it (only a context still open can be
\* snapshotted), or one of them threw and the catch logged; then untrack,
\* delete, session.close()
RemovalPersisted(k) ==
    /\ k \in DOMAIN rem
    /\ rem[k].pc = "persist"
    /\ \E saved \in BOOLEAN :
          /\ saved => ~sessionObjs[rem[k].session].closed
          /\ profileStore' = (IF saved THEN rem[k].session ELSE profileStore)
          /\ lastRemoval' = [session |-> rem[k].session, saved |-> saved]
    /\ history' = [history EXCEPT !.removed = @ \cup {rem[k].session}]
    /\ Untrack(sessionObjs[rem[k].session].id)
    /\ _sessions' = MapDelete(_sessions, sessionObjs[rem[k].session].id)
    /\ sessionObjs' = Closed({rem[k].session})
    /\ rem' = RemoveAt(rem, k)
    /\ UNCHANGED <<_browser, connected, _launching, pendingLaunches, launchCount,
                   _shuttingDown, acq, rec, shut, held, poolProfile, _maxContexts, events, lastAcquire,
                   lastRecovery>>
    /\ UNCHANGED <<nonPoolVars, healthVars>>

\* ------------------------------------------------------------------------
\* Browser pool: shutdown
\* ------------------------------------------------------------------------
\* shutdown up to await Promise.allSettled(closeTasks)
ShutdownStart ==
    /\ events < MaxEvents
    /\ events' = events + 1
    /\ shut.pc = "idle"
    /\ _shuttingDown' = TRUE
    /\ _timer' = FALSE
    /\ _tracked' = {}
    /\ shut' = [shut EXCEPT !.pc = "closing", !.closing = MapValues(_sessions)]
    /\ UNCHANGED <<_browser, connected, _launching, pendingLaunches, launchCount,
                   _sessions, sessionObjs, acq, rec, rem, held, poolProfile, _maxContexts, lastAcquire,
                   lastRecovery>>
    /\ UNCHANGED <<nonPoolVars, healthVars>>
    /\ UNCHANGED <<profileStore, lastRemoval>>
    /\ UNCHANGED history

\* the session closes settled: _sessions.clear(); then either the browser
\* close is awaited or shutdown finishes at once
ShutdownSessionsClosed ==
    /\ shut.pc = "closing"
    /\ sessionObjs' = Closed(shut.closing)
    /\ _sessions' = {}
    /\ IF _browser # 0
       THEN /\ shut' = [pc |-> "closingBrowser", closing |-> {}, browser |-> _browser]
            /\ UNCHANGED <<_launching, _shuttingDown>>
       ELSE /\ shut' = NoShutdown
            /\ _launching' = 0
            /\ _shuttingDown' = FALSE
    /\ UNCHANGED <<_browser, connected, pendingLaunches, launchCount, _tracked, _timer,
                   acq, rec, rem, held, poolProfile, _maxContexts, events, lastAcquire, lastRecovery>>
    /\ UNCHANGED <<nonPoolVars, healthVars>>
    /\ UNCHANGED <<profileStore, lastRemoval>>
    /\ history' = [history EXCEPT !.shutdownResolved = (IF _browser = 0 THEN TRUE ELSE @)]

\* browser.close() settled (its disconnected handler ran while
\* _shuttingDown was set, so it started no recovery): _browser = null,
\* _launching = null, _shuttingDown = false
ShutdownBrowserClosed ==
    /\ shut.pc = "closingBrowser"
    /\ connected' = connected \ {shut.browser}
    /\ sessionObjs' = (IF shut.browser \in connected
                       THEN MarkUnhealthy(MapValues(_sessions))
                       ELSE sessionObjs)
    /\ _browser' = 0
    /\ _launching' = 0
    /\ _shuttingDown' = FALSE
    /\ shut' = NoShutdown
    /\ UNCHANGED <<pendingLaunches, launchCount, _sessions, _tracked, _timer, acq, rec,
                   rem, held, poolProfile, _maxContexts, events, lastAcquire, lastRecovery>>
    /\ UNCHANGED <<nonPoolVars, healthVars>>
    /\ UNCHANGED <<profileStore, lastRemoval>>
    /\ history' = [history EXCEPT !.shutdownResolved = TRUE]

PoolNext ==
    \/ AcquireCall
    \/ \E i \in DOMAIN acq : AcquireFinish(i)
    \/ \E i \in DOMAIN acq : AcquireFails(i)
    \/ \E p \in pendingLaunches : LaunchResolves(p)
    \/ \E p \in pendingLaunches : LaunchRejects(p)
    \/ \E b \in connected : BrowserDisconnects(b)
    \/ \E o \in DOMAIN sessionObjs : HealthReportsUnhealthy(o)
    \/ \E o \in DOMAIN sessionObjs : PageCrashes(o)
    \/ \E j \in DOMAIN rec : RecoverSnapshotDone(j)
    \/ \E j \in DOMAIN rec : RecoverClosed(j)
    \/ \E j \in DOMAIN rec : RecoverFinish(j)
    \/ \E j \in DOMAIN rec : RecoverFails(j)
    \/ \E o \in DOMAIN sessionObjs, kind \in {"release", "destroy"} : RemovalCall(o, kind)
    \/ \E k \in DOMAIN rem : RemovalPersisted(k)
    \/ ShutdownStart
    \/ ShutdownSessionsClosed
    \/ ShutdownBrowserClosed

\* ------------------------------------------------------------------------
\* Health monitor: probes (HealthMonitor of src/pool/health.ts)
\* ------------------------------------------------------------------------
\* opts.maxFailures ?? MAX_CONSECUTIVE_FAILURES; the pool passes no maxFailures
_maxFailures == MAX_CONSECUTIVE_FAILURES

recordFailureReports_early(failures) == failures >= _maxFailures - 1

\* _recordFailure: tracked.consecutiveFailures >= this._maxFailures
recordFailureReports(failures) == failures >= _maxFailures

\* no probe was ever started
HealthIdle ==
    /\ consecutiveFailures = <<>>
    /\ probes = <<>>
    /\ failStreak = <<>>
    /\ unhealthyCalls = <<>>

\* track(session) for a session just constructed, as acquire and
\* _recoverUnhealthy call it
HealthTrack ==
    /\ events < MaxHealthEvents
    /\ events' = events + 1
    /\ LET o == Len(sessionObjs) + 1
           session == BrowserSession(FALSE) IN
       /\ sessionObjs' = Append(sessionObjs, session)
       /\ _tracked' = MapSet(_tracked, session.id, o)
    /\ _timer' = TRUE
    /\ consecutiveFailures' = Append(consecutiveFailures, 0)
    /\ probes' = Append(probes, 0)
    /\ failStreak' = Append(failStreak, 0)
    /\ unhealthyCalls' = Append(unhealthyCalls, 0)
    /\ UNCHANGED <<_browser, connected, _launching, pendingLaunches, launchCount,
                   _shuttingDown, _sessions, acq, rec, rem, shut, held, poolProfile, _maxContexts,
                   lastAcquire, lastRecovery>>
    /\ UNCHANGED nonPoolVars
    /\ UNCHANGED <<profileStore, lastRemoval>>
    /\ UNCHANGED history

\* untrack(sessionId)
HealthUntrack(o) ==
    /\ events < MaxHealthEvents
    /\ events' = events + 1
    /\ o \in MapValues(_tracked)
    /\ Untrack(sessionObjs[o].id)
    /\ UNCHANGED <<_browser, connected, _launching, pendingLaunches, launchCount,
                   _shuttingDown, _sessions, sessionObjs, acq, rec, rem, shut, held,
                   poolProfile, _maxContexts, lastAcquire, lastRecovery>>
    /\ UNCHANGED <<nonPoolVars, healthVars>>
    /\ UNCHANGED <<profileStore, lastRemoval>>
    /\ UNCHANGED history

\* stop()
HealthStop ==
    /\ events < MaxHealthEvents
    /\ events' = events + 1
    /\ _timer' = FALSE
    /\ _tracked' = {}
    /\ UNCHANGED <<_browser, connected, _launching, pendingLaunches, launchCount,
                   _shuttingDown, _sessions, sessionObjs, acq, rec, rem, shut, held,
                   poolProfile, _maxContexts, lastAcquire, lastRecovery>>
    /\ UNCHANGED <<nonPoolVars, healthVars>>
    /\ UNCHANGED <<profileStore, lastRemoval>>
    /\ UNCHANGED history

\* the interval timer fires: _checkAll calls _probe for every tracked
\* session; _probe returns at once for a session that is not healthy and
\* otherwise awaits page.evaluate raced against the timeout
CheckAll ==
    /\ events < MaxHealthEvents
    /\ events' = events + 1
    /\ _timer
    /\ probes' = [o \in DOMAIN probes |->
                    IF o \in MapValues(_tracked) /\ sessionObjs[o].healthy
                    THEN probes[o] + 1 ELSE probes[o]]
    /\ UNCHANGED <<consecutiveFailures, failStreak, unhealthyCalls>>
    /\ UNCHANGED <<_browser, connected, _launching, pendingLaunches, launchCount,
                   _shuttingDown, _sessions, sessionObjs, _tracked, _timer, acq, rec, rem,
                   shut, held, poolProfile, _maxContexts, lastAcquire, lastRecovery>>
    /\ UNCHANGED nonPoolVars
    /\ UNCHANGED <<profileStore, lastRemoval>>
    /\ UNCHANGED history

\* _probe: page.evaluate returned "complete", "interactive" or "loading"
ProbeValid(o) ==
    /\ probes[o] > 0
    /\ probes' = [probes EXCEPT ![o] = @ - 1]
    /\ consecutiveFailures' = [consecutiveFailures EXCEPT ![o] = 0]
    /\ failStreak' = [failStreak EXCEPT ![o] = 0]
    /\ UNCHANGED unhealthyCalls
    /\ UNCHANGED poolVars
    /\ UNCHANGED nonPoolVars

\* _probe: page.evaluate returned something else, threw, or the timeout
\* won the race; _recordFailure
ProbeFails(o) ==
    /\ probes[o] > 0
    /\ probes' = [probes EXCEPT ![o] = @ - 1]
    /\ consecutiveFailures' = [consecutiveFailures EXCEPT ![o] = @ + 1]
    /\ failStreak' = [failStreak EXCEPT ![o] = @ + 1]
    /\ IF recordFailureReports(consecutiveFailures[o] + 1)
       THEN /\ sessionObjs' = MarkUnhealthy({o})
            /\ unhealthyCalls' = [unhealthyCalls EXCEPT ![o] = @ + 1]
       ELSE UNCHANGED <<sessionObjs, unhealthyCalls>>
    /\ UNCHANGED <<_browser, connected, _launching, pendingLaunches, launchCount,
                   _shuttingDown, _sessions, _tracked, _timer, acq, rec, rem, shut, held,
                   poolProfile, _maxContexts, events, lastAcquire, lastRecovery>>
    /\ UNCHANGED nonPoolVars
    /\ UNCHANGED <<profileStore, lastRemoval>>
    /\ UNCHANGED history

\* the page of a session crashes, or the pool's disconnected handler calls
\* session.markUnhealthy(): only the flag changes
SessionMarkedUnhealthy(o) ==
    /\ events < MaxHealthEvents
    /\ events' = events + 1
    /\ sessionObjs[o].healthy
    /\ sessionObjs' = MarkUnhealthy({o})
    /\ UNCHANGED <<_browser, connected, _launching, pendingLaunches, launchCount,
                   _shuttingDown, _sessions, _tracked, _timer, acq, rec, rem, shut, held,
                   poolProfile, _maxContexts, lastAcquire, lastRecovery>>
    /\ UNCHANGED <<nonPoolVars, healthVars>>
    /\ UNCHANGED <<profileStore, lastRemoval>>
    /\ UNCHANGED history

HealthNext ==
    \/ HealthTrack
    \/ \E o \in DOMAIN sessionObjs : HealthUntrack(o)
    \/ HealthStop
    \/ CheckAll
    \/ \E o \in DOMAIN sessionObjs : ProbeValid(o)
    \/ \E o \in DOMAIN sessionObjs : ProbeFails(o)
    \/ \E o \in DOMAIN sessionObjs : SessionMarkedUnhealthy(o)

\* ------------------------------------------------------------------------
\* Handle registry (HandleRegistry of src/session/handle-registry.ts) and
\* resolveWithConfidence of src/selectors/strategy.ts
\* ------------------------------------------------------------------------
\* A SelectorStrategy: sel is what it selects, keys the order in which the
\* object's keys were written.
Strategy(sel, keys) == [sel |-> sel, keys |-> keys]

\* JSON.stringify(strategy): the keys in the object's own order
JSONstringify(strategy) == <<strategy.keys, strategy.sel>>

\* deep equality of two strategies
DeepEqual(a, b) == a.sel = b.sel

Selectors == 1..MaxHandleChain

\* The selector arguments of register: a single strategy, a chain of
\* different strategies, or such a chain ending with a copy of its first
\* strategy written with the keys in another order.
SelectorInputs ==
    { [isArray |-> FALSE, chain |-> << Strategy(1, "a") >>] }
    \cup { [isArray |-> TRUE, chain |-> [i \in 1..n |-> Strategy(i, "a")]] :
             n \in 1..MaxHandleChain }
    \cup { [isArray |-> TRUE,
            chain |-> [i \in 1..n |-> IF i = n THEN Strategy(1, "b") ELSE Strategy(i, "a")]] :
             n \in 2..MaxHandleChain }

NotFound ==
    [found |-> FALSE, strategy |-> Strategy(0, "a"), strategyIndex |-> 0, chainLength |-> 0]

Min(a, b) == IF a <= b THEN a ELSE b

\* A page: the selectors that select an attached element and those that
\* select a visible one.
Page(attached, visible) == [attached |-> attached, visible |-> visible]

waitForSucceeds_always(page, strategy, state) == TRUE

\* locator.first().waitFor({state}) succeeds on this page
waitForSucceeds(page, strategy, state) ==
    IF state = "visible" THEN strategy.sel \in page.visible
    ELSE strategy.sel \in page.attached

\* resolveWithConfidence, the loop from index i on with `remaining` ms left
\* to the deadline: a strategy that matches returns at once, one that does
\* not match uses up its whole waitFor timeout
RECURSIVE resolveLoop(_, _, _, _, _)
resolveLoop(selector, i, remaining, page, state) ==
    IF i > Len(selector) \/ remaining <= 0
    THEN NotFound
    ELSE IF waitForSucceeds(page, selector[i], state)
         THEN [found |-> TRUE, strategy |-> selector[i], strategyIndex |-> i - 1,
               chainLength |-> Len(selector)]
         ELSE resolveLoop(selector, i + 1,
                          remaining - Min(remaining, STRATEGY_WAIT_MS), page, state)

\* resolveWithConfidence(page, selector, state, timeoutMs) for an array of
\* strategies; NotFound stands for the TargetNotFoundError
resolveWithConfidence(page, selector, state, timeoutMs) ==
    IF selector = <<>> THEN NotFound
    ELSE IF state \in {"hidden", "detached"}
         THEN [found |-> TRUE, strategy |-> selector[1], strategyIndex |-> 0,
               chainLength |-> Len(selector)]
         ELSE resolveLoop(selector, 1, timeoutMs, page, state)

\* resolveWithConfidence for any selector argument: a string or a single
\* strategy object is returned at once, without waiting for it
resolveSelectorArgument(page, selector, state, timeoutMs) ==
    IF ~selector.isArray
    THEN [found |-> TRUE, strategy |-> selector.chain[1], strategyIndex |-> 0,
          chainLength |-> 1]
    ELSE resolveWithConfidence(page, selector.chain, state, timeoutMs)

buildPrioritizedStrategies_original(handle) == handle.selector

\* _buildPrioritizedStrategies
buildPrioritizedStrategies(handle) ==
    << handle.lastStrategy >> \o
    SelectSeq(handle.selector,
              LAMBDA st : JSONstringify(st) # JSONstringify(handle.lastStrategy))

remappedTest_never(winner, last) == FALSE

\* resolve: type differs or JSON.stringify differs
remappedTest(winner, last) == JSONstringify(winner) # JSONstringify(last)

remapCountAfter_reset(count, remapped) == IF remapped THEN 1 ELSE 0

\* resolve: if (remapped) handle.remapCount++
remapCountAfter(count, remapped) == IF remapped THEN count + 1 ELSE count

\* what a call of resolve that threw leaves to its caller: the error's code
Rejected(handleId, code) ==
    [handleId |-> handleId, found |-> FALSE, remapped |-> FALSE,
     strategy |-> Strategy(0, "a"), strategyIndex |-> 0, code |-> code,
     followsRemap |-> FALSE]

NoResolution == Rejected(0, "")

RegistryIdle ==
    /\ _handles = <<>>
    /\ handlesMade = 0
    /\ matching = {}
    /\ lastResolution = NoResolution

\* a page with some content, an empty registry
RegistryInit ==
    /\ _handles = <<>>
    /\ handlesMade = 0
    /\ matching \in SUBSET Selectors
    /\ lastResolution = NoResolution

\* register(page, selector): throws when nothing matches in time
register(input) ==
    /\ LET resolution == resolveWithConfidence(Page(matching, {}), input.chain, "attached",
                                               RESOLVE_TIMEOUT_MS)
           handleId == handlesMade + 1 IN
       /\ resolution.found
       /\ _handles' = [h \in DOMAIN _handles \cup {handleId} |->
                         IF h = handleId
                         THEN [handleId |-> handleId, isArray |-> input.isArray,
                               selector |-> input.chain,
                               lastStrategy |-> resolution.strategy, remapCount |-> 0]
                         ELSE _handles[h]]
       /\ handlesMade' = handleId
    /\ UNCHANGED <<matching, lastResolution>>
    /\ UNCHANGED nonRegistryVars

\* a call of register with any selector argument
Register(input) ==
    /\ handlesMade < MaxHandles
    /\ register(input)

\* a call of register with one strategy object, as the tests of release and
\* clear make it
RegisterSingle(sel) ==
    /\ handlesMade < MaxRegistered
    /\ register([isArray |-> FALSE, chain |-> << Strategy(sel, "a") >>])

\* resolve(page, handleId): throws StaleElementError for an id that is not
\* in the map; for a registered handle it returns, or lets the
\* TargetNotFoundError of resolveWithConfidence through
Resolve(handleId) ==
    /\ IF handleId \notin DOMAIN _handles
       THEN /\ lastResolution' = Rejected(handleId, StaleElementError("handle not found").cls)
            /\ UNCHANGED _handles
       ELSE LET handle == _handles[handleId]
                resolution == resolveWithConfidence(Page(matching, {}),
                                  buildPrioritizedStrategies(handle), "attached",
                                  RESOLVE_TIMEOUT_MS)
                remapped == remappedTest(resolution.strategy, handle.lastStrategy) IN
            IF resolution.found
            THEN /\ remapCountAfter(handle.remapCount, remapped) <= MaxRemaps
                 /\ _handles' = [_handles EXCEPT
                                   ![handleId].lastStrategy =
                                       IF remapped THEN resolution.strategy ELSE @,
                                   ![handleId].remapCount = remapCountAfter(@, remapped)]
                 /\ lastResolution' = [handleId |-> handleId, found |-> TRUE,
                                       remapped |-> remapped,
                                       strategy |-> resolution.strategy,
                                       strategyIndex |-> resolution.strategyIndex,
                                       code |-> "",
                                       followsRemap |->
                                           /\ lastResolution.handleId = handleId
                                           /\ lastResolution.remapped]
            ELSE /\ lastResolution' =
                        Rejected(handleId, TargetNotFoundError("no selector strategy matched").cls)
                 /\ UNCHANGED _handles
    /\ UNCHANGED <<handlesMade, matching>>
    /\ UNCHANGED nonRegistryVars

ReleaseHandle_clear(handleId) ==
    /\ handleId \in DOMAIN _handles
    /\ _handles' = <<>>
    /\ UNCHANGED <<handlesMade, matching, lastResolution>>
    /\ UNCHANGED nonRegistryVars

\* release(handleId)
ReleaseHandle(handleId) ==
    /\ handleId \in DOMAIN _handles
    /\ _handles' = [h \in DOMAIN _handles \ {handleId} |-> _handles[h]]
    /\ UNCHANGED <<handlesMade, matching, lastResolution>>
    /\ UNCHANGED nonRegistryVars

\* clear()
ClearHandles ==
    /\ _handles # <<>>
    /\ _handles' = <<>>
    /\ UNCHANGED <<handlesMade, matching, lastResolution>>
    /\ UNCHANGED nonRegistryVars

\* the DOM changes between two calls: an element a strategy selects appears
\* or disappears
DomMutates(sel) ==
    /\ matching' = IF sel \in matching THEN matching \ {sel} ELSE matching \cup {sel}
    /\ lastResolution' = NoResolution
    /\ UNCHANGED <<_handles, handlesMade>>
    /\ UNCHANGED nonRegistryVars

RegistryNext ==
    \/ \E input \in SelectorInputs : Register(input)
    \/ \E handleId \in DOMAIN _handles : Resolve(handleId)
    \/ \E sel \in Selectors : DomMutates(sel)

\* the registry with several handles of one strategy each
ManyHandlesNext ==
    \/ \E sel \in Selectors : RegisterSingle(sel)
    \/ \E handleId \in 1..(handlesMade + 1) : Resolve(handleId)
    \/ \E handleId \in DOMAIN _handles : ReleaseHandle(handleId)
    \/ ClearHandles
    \/ \E sel \in Selectors : DomMutates(sel)

\* ------------------------------------------------------------------------
\* Selector resolution alone (resolveWithConfidence called directly, as the
\* actions of src/actions/interact.ts call it)
\* ------------------------------------------------------------------------
\* The timeout tiers of the actions (resolveTimeout).
TIMEOUT_VALUES == [short |-> 5000, medium |-> 15000, long |-> 45000]

SelectorWaitStates == {"visible", "hidden", "attached", "detached"}

\* Pages: what is visible is attached.
Pages == UNION { { Page(attached, visible) : visible \in SUBSET attached } :
                 attached \in SUBSET Selectors }

\* Arrays of up to MaxHandleChain different strategies, in any order.
StrategyArrays ==
    { [i \in DOMAIN c |-> Strategy(c[i], "a")] :
        c \in { c \in UNION { [1..n -> Selectors] : n \in 0..MaxHandleChain } :
                  \A i, j \in DOMAIN c : i # j => c[i] # c[j] } }

\* The selector arguments: an array, or one strategy object.
SelectorArguments ==
    { [isArray |-> TRUE, chain |-> chain] : chain \in StrategyArrays }
    \cup { [isArray |-> FALSE, chain |-> << Strategy(sel, "a") >>] : sel \in Selectors }

NoSelectorCall ==
    [called |-> FALSE, page |-> Page({}, {}), selector |-> [isArray |-> TRUE, chain |-> <<>>],
     state |-> "attached", timeoutMs |-> 0, resolution |-> NotFound]

SelectorIdle == selectorCall = NoSelectorCall

\* the arguments of the call that is about to be made
SelectorCallPending ==
    \E page \in Pages, selector \in SelectorArguments, state \in SelectorWaitStates,
       timeoutMs \in {TIMEOUT_VALUES.short, TIMEOUT_VALUES.medium} :
        selectorCall = [called |-> FALSE, page |-> page, selector |-> selector,
                        state |-> state, timeoutMs |-> timeoutMs, resolution |-> NotFound]

\* the call of resolveWithConfidence with these arguments
ResolveCall ==
    /\ ~selectorCall.called
    /\ selectorCall' = [selectorCall EXCEPT
                          !.called = TRUE,
                          !.resolution = resolveSelectorArgument(selectorCall.page,
                                             selectorCall.selector, selectorCall.state,
                                             selectorCall.timeoutMs)]
    /\ UNCHANGED nonSelectorVars

SelectorNext == ResolveCall

\* ------------------------------------------------------------------------
\* The click action (click of src/actions/interact.ts inside executeAction
\* and retryLoop of src/actions/semantic.ts), with the time its steps take
\* ------------------------------------------------------------------------
\* ctx._retryState = {}
EmptyRetryState == [lastClickSelector |-> "", lastClickTime |-> 0]

\* The options of a click: opts.retries, the resolved timeout, whether a
\* postcondition is attached.
ClickOptions ==
    [retries : 0..MaxClickRetries, timeoutMs : {500, TIMEOUT_VALUES.short},
     postcondition : BOOLEAN]

ClickIdle ==
    /\ clickOpts = [retries |-> 0, timeoutMs |-> TIMEOUT_VALUES.short, postcondition |-> FALSE]
    /\ clickPc = "idle"
    /\ clickAttempt = 0
    /\ clock = 0
    /\ _retryState = EmptyRetryState
    /\ clickUrlChanged = FALSE
    /\ clickOk = FALSE
    /\ clicks = <<>>
    /\ lastSkipped = FALSE

\* a click about to be called
ClickPending ==
    /\ clickOpts \in ClickOptions
    /\ clickPc = "idle"
    /\ clickAttempt = 0
    /\ clock = 0
    /\ _retryState = EmptyRetryState
    /\ clickUrlChanged = FALSE
    /\ clickOk = FALSE
    /\ clicks = <<>>
    /\ lastSkipped = FALSE

isDuplicateClick_never(retryState, selectorKey, now) == FALSE

\* click: the duplicate click prevention at the top of the body
isDuplicateClick(retryState, selectorKey, now) ==
    /\ retryState.lastClickSelector = selectorKey
    /\ retryState.lastClickTime # 0
    /\ now - retryState.lastClickTime < DEDUP_CLICK_MS

\* backoff(attempt): Math.min(100 * 2 ** attempt, 2000) plus a jitter below
\* 500 ms, taken in steps of 100 ms
BackoffDelays(att) == { Min(100 * 2 ^ att, 2000) + jitter : jitter \in {0, 100, 200, 300, 400} }

\* waitForDomStability(page, 200, Math.min(timeoutMs, 5000)): the times after
\* which it resolves (the quiet period, or later while the DOM still changes)
StabilityDelays(timeoutMs) ==
    { d \in {CLICK_STABILITY_MS, 2 * CLICK_STABILITY_MS} : d < Min(timeoutMs, STABILITY_CAP_MS) }

\* executeAction up to the call of retryLoop
ClickCall ==
    /\ clickPc = "idle"
    /\ _retryState' = EmptyRetryState
    /\ clickPc' = "loop"
    /\ UNCHANGED <<clickOpts, clickAttempt, clock, clickUrlChanged, clickOk, clicks,
                   lastSkipped>>
    /\ UNCHANGED nonClickVars

\* retryLoop: the loop test and the navigation guard; on loop exit or guard
\* hit executeAction returns the failure
ClickLoopHead ==
    /\ clickPc = "loop"
    /\ IF clickAttempt <= clickOpts.retries /\ ~(clickAttempt # 0 /\ clickUrlChanged)
       THEN clickPc' = "body" /\ UNCHANGED clickOk
       ELSE clickPc' = "done" /\ clickOk' = FALSE
    /\ UNCHANGED <<clickOpts, clickAttempt, clock, _retryState, clickUrlChanged, clicks,
                   lastSkipped>>
    /\ UNCHANGED nonClickVars

\* the body of click when it is skipped as a duplicate
ClickSkipped ==
    /\ clickPc = "body"
    /\ isDuplicateClick(_retryState, "selectorKey", clock)
    /\ lastSkipped' = TRUE
    /\ clickPc' = "post"
    /\ UNCHANGED <<clickOpts, clickAttempt, clock, _retryState, clickUrlChanged, clickOk,
                   clicks>>
    /\ UNCHANGED nonClickVars

\* the body of click fails before locator.click has clicked: the first
\* waitForDomStability, resolveWithConfidence or the click itself time out
ClickFailsBeforeClicking ==
    /\ clickPc = "body"
    /\ ~isDuplicateClick(_retryState, "selectorKey", clock)
    /\ \E d \in {Min(clickOpts.timeoutMs, STABILITY_CAP_MS), clickOpts.timeoutMs} :
          clock' = clock + d
    /\ lastSkipped' = FALSE
    /\ clickPc' = "after"
    /\ UNCHANGED <<clickOpts, clickAttempt, _retryState, clickUrlChanged, clickOk, clicks>>
    /\ UNCHANGED nonClickVars

\* the body of click clicks the element, and the second waitForDomStability
\* throws: at once when the click destroyed the execution context (the page
\* reloaded or navigated), or at its timeout while the DOM keeps changing
ClickedThenWaitThrows ==
    /\ clickPc = "body"
    /\ ~isDuplicateClick(_retryState, "selectorKey", clock)
    /\ \E d1 \in StabilityDelays(clickOpts.timeoutMs),
          d2 \in {0, Min(clickOpts.timeoutMs, STABILITY_CAP_MS)} :
          /\ clicks' = Append(clicks, clock + d1)
          /\ clock' = clock + d1 + d2
          /\ \E navigated \in (IF d2 = 0 THEN BOOLEAN ELSE {FALSE}) :
                clickUrlChanged' = (clickUrlChanged \/ navigated)
    /\ lastSkipped' = FALSE
    /\ clickPc' = "after"
    /\ UNCHANGED <<clickOpts, clickAttempt, _retryState, clickOk>>
    /\ UNCHANGED nonClickVars

\* the body of click runs to its end: both waits resolve, the element is
\* clicked, the click is remembered for the guard
ClickedAndRemembered ==
    /\ clickPc = "body"
    /\ ~isDuplicateClick(_retryState, "selectorKey", clock)
    /\ \E d1 \in StabilityDelays(clickOpts.timeoutMs),
          d2 \in StabilityDelays(clickOpts.timeoutMs) :
          /\ clicks' = Append(clicks, clock + d1)
          /\ clock' = clock + d1 + d2
          /\ _retryState' = [lastClickSelector |-> "selectorKey",
                             lastClickTime |-> clock + d1 + d2]
    /\ lastSkipped' = FALSE
    /\ clickPc' = "post"
    /\ UNCHANGED <<clickOpts, clickAttempt, clickUrlChanged, clickOk>>
    /\ UNCHANGED nonClickVars

\* runAttempt after the body: the postcondition, when there is one, returns
\* true or false (or throws, which also leads to a retry)
ClickPostcondition ==
    /\ clickPc = "post"
    /\ \E holds \in (IF clickOpts.postcondition THEN BOOLEAN ELSE {TRUE}) :
          IF holds
          THEN clickPc' = "done" /\ clickOk' = TRUE
          ELSE clickPc' = "after" /\ UNCHANGED clickOk
    /\ UNCHANGED <<clickOpts, clickAttempt, clock, _retryState, clickUrlChanged, clicks,
                   lastSkipped>>
    /\ UNCHANGED nonClickVars

\* retryLoop after a failed attempt: backoff while attempts remain, attempt++
ClickBackoff ==
    /\ clickPc = "after"
    /\ IF clickAttempt < clickOpts.retries
       THEN \E d \in BackoffDelays(clickAttempt) : clock' = clock + d
       ELSE UNCHANGED clock
    /\ clickAttempt' = clickAttempt + 1
    /\ clickPc' = "loop"
    /\ UNCHANGED <<clickOpts, _retryState, clickUrlChanged, clickOk, clicks, lastSkipped>>
    /\ UNCHANGED nonClickVars

ClickNext ==
    \/ ClickCall
    \/ ClickLoopHead
    \/ ClickSkipped
    \/ ClickFailsBeforeClicking
    \/ ClickedThenWaitThrows
    \/ ClickedAndRemembered
    \/ ClickPostcondition
    \/ ClickBackoff

\* ------------------------------------------------------------------------
\* The action trace (ActionTrace of src/observe/trace.ts)
\* ------------------------------------------------------------------------
\* the session ids; the trace treats them alike, so the runs name the
\* sessions in the order in which they first record
SessionIds == <<"s1", "s2", "s3">>
TraceSessions == { SessionIds[i] : i \in 1..Len(SessionIds) }
SessionIndex(sessionId) == CHOOSE i \in 1..Len(SessionIds) : SessionIds[i] = sessionId
TraceActions == {"click", "type"}

Max(a, b) == IF a >= b THEN a ELSE b

\* the entries recorded in the runs: a click that succeeded after one retry
\* in 1 ms, a type that failed after two retries in 2 ms
TraceEntryKinds ==
    { [action |-> "click", durationMs |-> 1, ok |-> TRUE, retries |-> 1],
      [action |-> "type", durationMs |-> 2, ok |-> FALSE, retries |-> 2] }

TraceEntry(kind, timestamp) ==
    [action |-> kind.action, timestamp |-> timestamp, durationMs |-> kind.durationMs,
     ok |-> kind.ok, retries |-> kind.retries]

\* the configurations the runs construct the trace with
ConfiguredTraceOptions ==
    { [maxEntriesPerSession |-> 0, maxDurationSamples |-> 1],
      [maxEntriesPerSession |-> 1, maxDurationSamples |-> 2],
      [maxEntriesPerSession |-> 2, maxDurationSamples |-> 1],
      [maxEntriesPerSession |-> 2, maxDurationSamples |-> 2] }

DefaultTraceOptions == [maxEntriesPerSession |-> 2000, maxDurationSamples |-> 5000]

\* constructor; _entries is the Map's values and _keys its keys in insertion order
ActionTraceNew(options) ==
    [_entries |-> [s \in TraceSessions |-> <<>>],
     _keys |-> <<>>,
     _allDurations |-> <<>>,
     _totalRetries |-> 0,
     _outcomeOk |-> 0,
     _outcomeFailed |-> 0,
     _actionCounts |-> [a \in TraceActions |-> 0],
     _maxEntriesPerSession |-> Max(1, options.maxEntriesPerSession),
     _maxDurationSamples |-> Max(1, options.maxDurationSamples)]

HasKey(t, sessionId) == \E i \in 1..Len(t._keys) : t._keys[i] = sessionId

adjustAggregate_kept(t, sign, entry) == t

\* _adjustAggregate; a count of 0 is a deleted key
adjustAggregate(t, sign, entry) ==
    [t EXCEPT !._totalRetries = @ + sign * entry.retries,
              !._outcomeOk = IF entry.ok THEN @ + sign ELSE @,
              !._outcomeFailed = IF entry.ok THEN @ ELSE @ + sign,
              !._actionCounts[entry.action] = IF @ + sign <= 0 THEN 0 ELSE @ + sign]

\* _removeDuration
removeDuration(t, sessionId, timestamp, durationMs) ==
    LET matches == { i \in 1..Len(t._allDurations) :
                       /\ t._allDurations[i].sessionId = sessionId
                       /\ t._allDurations[i].timestamp = timestamp
                       /\ t._allDurations[i].durationMs = durationMs }
    IN  IF matches = {}
        THEN t
        ELSE LET index == CHOOSE i \in matches : \A j \in matches : i <= j
             IN  [t EXCEPT !._allDurations = RemoveAt(@, index)]

RECURSIVE shiftWhileOverCap(_, _)
shiftWhileOverCap_never(t, sessionId) == t

\* record: while (entries.length > this._maxEntriesPerSession) { shift ... }
shiftWhileOverCap(t, sessionId) ==
    IF Len(t._entries[sessionId]) > t._maxEntriesPerSession
    THEN LET removed == Head(t._entries[sessionId])
             shifted == [t EXCEPT !._entries[sessionId] = Tail(@)]
         IN  shiftWhileOverCap(
                 adjustAggregate(
                     removeDuration(shifted, sessionId, removed.timestamp, removed.durationMs),
                     0 - 1, removed),
                 sessionId)
    ELSE t

\* record
record(t, sessionId, entry) ==
    LET pushed == [t EXCEPT !._keys = IF HasKey(t, sessionId) THEN @ ELSE Append(@, sessionId),
                            !._entries[sessionId] = Append(@, entry)]
        capped == shiftWhileOverCap(pushed, sessionId)
        sampled == Append(capped._allDurations,
                          [sessionId |-> sessionId, timestamp |-> entry.timestamp,
                           durationMs |-> entry.durationMs])
        ring == IF Len(sampled) > capped._maxDurationSamples THEN Tail(sampled) ELSE sampled
    IN  [capped EXCEPT !._allDurations = ring,
                       !._totalRetries = @ + entry.retries,
                       !._outcomeOk = IF entry.ok THEN @ + 1 ELSE @,
                       !._outcomeFailed = IF entry.ok THEN @ ELSE @ + 1,
                       !._actionCounts[entry.action] = @ + 1]

\* getSessionTrace
getSessionTrace(t, sessionId) == IF HasKey(t, sessionId) THEN t._entries[sessionId] ELSE <<>>

\* the entries of the sessions of the Map, in the order of its iteration
RECURSIVE EntriesInMapOrder(_, _)
EntriesInMapOrder(t, i) ==
    IF i > Len(t._keys)
    THEN <<>>
    ELSE [j \in 1..Len(t._entries[t._keys[i]]) |->
             [sessionId |-> t._keys[i], entry |-> t._entries[t._keys[i]][j]]]
         \o EntriesInMapOrder(t, i + 1)

\* Array.prototype.sort with (a, b) => a.timestamp - b.timestamp, which is stable
RECURSIVE SortByTimestamp(_)
SortByTimestamp(samples) ==
    IF samples = <<>>
    THEN <<>>
    ELSE LET sorted == SortByTimestamp(SubSeq(samples, 1, Len(samples) - 1))
             last == samples[Len(samples)]
             before == { i \in 1..Len(sorted) : sorted[i].timestamp <= last.timestamp }
             at == IF before = {} THEN 0 ELSE CHOOSE i \in before : \A j \in before : j <= i
         IN  SubSeq(sorted, 1, at) \o <<last>> \o SubSeq(sorted, at + 1, Len(sorted))

RECURSIVE SumSeq(_)
SumSeq(numbers) == IF numbers = <<>> THEN 0 ELSE Head(numbers) + SumSeq(Tail(numbers))

\* _recomputeAggregates
recomputeAggregates(t) ==
    LET all == EntriesInMapOrder(t, 1)
        allDurations == SortByTimestamp(
            [i \in 1..Len(all) |->
                [sessionId |-> all[i].sessionId, timestamp |-> all[i].entry.timestamp,
                 durationMs |-> all[i].entry.durationMs]])
        over == Len(allDurations) - t._maxDurationSamples
    IN  [t EXCEPT !._allDurations =
                      IF over > 0 THEN SubSeq(allDurations, over + 1, Len(allDurations))
                      ELSE allDurations,
                  !._totalRetries = SumSeq([i \in 1..Len(all) |-> all[i].entry.retries]),
                  !._outcomeOk = Cardinality({ i \in 1..Len(all) : all[i].entry.ok }),
                  !._outcomeFailed = Cardinality({ i \in 1..Len(all) : ~all[i].entry.ok }),
                  !._actionCounts =
                      [a \in TraceActions |->
                          Cardinality({ i \in 1..Len(all) : all[i].entry.action = a })]]

\* clearSession
clearSession(t, sessionId) ==
    IF ~HasKey(t, sessionId)
    THEN t
    ELSE LET index == CHOOSE i \in 1..Len(t._keys) : t._keys[i] = sessionId
         IN  recomputeAggregates([t EXCEPT !._keys = RemoveAt(@, index),
                                           !._entries[sessionId] = <<>>])

\* [...].sort((a, b) => a - b) of the durations
RECURSIVE SortedDurations(_)
SortedDurations(samples) ==
    IF samples = <<>>
    THEN <<>>
    ELSE LET sorted == SortedDurations(Tail(samples))
             d == Head(samples).durationMs
             smaller == { i \in 1..Len(sorted) : sorted[i] < d }
         IN  SubSeq(sorted, 1, Cardinality(smaller)) \o <<d>>
             \o SubSeq(sorted, Cardinality(smaller) + 1, Len(sorted))

\* percentile(sorted, p) with p = percent / 100
percentile(sorted, percent) ==
    IF Len(sorted) = 0
    THEN 0
    ELSE LET idx == ((Len(sorted) * percent + 99) \div 100) - 1
         IN  sorted[Max(0, idx) + 1]

\* stats; an action absent from actionsByType has the count 0
stats(t) ==
    LET sorted == SortedDurations(t._allDurations)
    IN  [actionsTotal |-> t._outcomeOk + t._outcomeFailed,
         actionsByType |-> t._actionCounts,
         actionsByOutcome |-> [ok |-> t._outcomeOk, failed |-> t._outcomeFailed],
         retriesTotal |-> t._totalRetries,
         sessionsTotal |-> Len(t._keys),
         durationP50Ms |-> percentile(sorted, 50),
         durationP95Ms |-> percentile(sorted, 95)]

NoTraceOp == [op |-> "none", sessionId |-> ""]

\* a trace constructed with the defaults and never used
TraceIdle ==
    /\ traceOpts = DefaultTraceOptions
    /\ trace = ActionTraceNew(DefaultTraceOptions)
    /\ traceNow = 0
    /\ traceOps = [calls |-> 0, clears |-> 0]
    /\ sessionsUsed = 0
    /\ lastTraceOp = NoTraceOp
    /\ recordedFor = [s \in TraceSessions |-> <<>>]
    /\ withoutSession = [s \in TraceSessions |-> ActionTraceNew(DefaultTraceOptions)]

\* a trace just constructed from the configuration
TraceConstructed ==
    /\ traceOpts \in ConfiguredTraceOptions
    /\ trace = ActionTraceNew(traceOpts)
    /\ traceNow = 0
    /\ traceOps = [calls |-> 0, clears |-> 0]
    /\ sessionsUsed = 0
    /\ lastTraceOp = NoTraceOp
    /\ recordedFor = [s \in TraceSessions |-> <<>>]
    /\ withoutSession = [s \in TraceSessions |-> ActionTraceNew(traceOpts)]

\* trace.record(sessionId, entry) with timestamp Date.now(), which has not
\* gone back since the last entry and may not have moved
TraceRecord(sessionId, kind) ==
    /\ traceOps.calls < MaxTraceOps
    /\ SessionIndex(sessionId) <= sessionsUsed + 1
    /\ sessionsUsed' = Max(sessionsUsed, SessionIndex(sessionId))
    /\ \E timestamp \in {traceNow, traceNow + 1} :
          /\ traceNow' = timestamp
          /\ trace' = record(trace, sessionId, TraceEntry(kind, timestamp))
          /\ recordedFor' = [recordedFor EXCEPT ![sessionId] =
                                Append(@, TraceEntry(kind, timestamp))]
          /\ withoutSession' =
                [s \in TraceSessions |->
                    IF s = sessionId THEN withoutSession[s]
                    ELSE record(withoutSession[s], sessionId, TraceEntry(kind, timestamp))]
    /\ traceOps' = [traceOps EXCEPT !.calls = @ + 1]
    /\ lastTraceOp' = [op |-> "record", sessionId |-> sessionId]
    /\ UNCHANGED traceOpts
    /\ UNCHANGED nonTraceVars

\* trace.clearSession(sessionId)
TraceClearSession(sessionId) ==
    /\ traceOps.calls < MaxTraceOps
    /\ traceOps.clears < MaxTraceClears
    /\ SessionIndex(sessionId) <= sessionsUsed + 1
    /\ trace' = clearSession(trace, sessionId)
    /\ recordedFor' = [recordedFor EXCEPT ![sessionId] = <<>>]
    /\ withoutSession' =
          [s \in TraceSessions |->
              IF s = sessionId THEN withoutSession[s]
              ELSE clearSession(withoutSession[s], sessionId)]
    /\ traceOps' = [calls |-> traceOps.calls + 1, clears |-> traceOps.clears + 1]
    /\ lastTraceOp' = [op |-> "clear", sessionId |-> sessionId]
    /\ UNCHANGED <<traceOpts, traceNow, sessionsUsed>>
    /\ UNCHANGED nonTraceVars

TraceNext ==
    \/ \E sessionId \in TraceSessions, kind \in TraceEntryKinds : TraceRecord(sessionId, kind)
    \/ \E sessionId \in TraceSessions : TraceClearSession(sessionId)

\* ------------------------------------------------------------------------
\* waitForDomStability (src/actions/resilience.ts)
\* ------------------------------------------------------------------------
DEFAULT_STABILITY_MS == 200

\* the promise inside page.evaluate, before waitForDomStability is called
DomWaitNotCalled(stabilityMs, timeoutMs) ==
    [stabilityMs |-> stabilityMs, timeoutMs |-> timeoutMs, now |-> 0,
     timer |-> 0 - 1, deadline |-> 0 - 1, mutations |-> 0, observing |-> FALSE,
     promise |-> "none"]

DomWaitIdle == domWait = DomWaitNotCalled(DEFAULT_STABILITY_MS, 5000)

\* the arguments of the calls: the defaults, click's (200, Math.min(timeoutMs, 5000))
\* with timeouts of 100, 500 and 5000 ms and more, and other quiet periods
DomWaitPending ==
    \E stabilityMs \in {100, DEFAULT_STABILITY_MS, 500}, timeoutMs \in {100, 500, 1000, 5000} :
        domWait = DomWaitNotCalled(stabilityMs, timeoutMs)

\* the executor of the promise: deadline = setTimeout(..., timeoutMs),
\* observer.observe(...), timer = setTimeout(..., stabilityMs)
DomWaitCalled ==
    /\ domWait.promise = "none"
    /\ domWait' = [domWait EXCEPT !.deadline = domWait.now + domWait.timeoutMs,
                                  !.timer = domWait.now + domWait.stabilityMs,
                                  !.observing = TRUE,
                                  !.promise = "pending"]
    /\ UNCHANGED nonDomWaitVars

\* the next time at which a timer is due
NextTimerDue(w) ==
    IF w.timer < 0 THEN w.deadline
    ELSE IF w.deadline < 0 THEN w.timer
    ELSE Min(w.timer, w.deadline)

\* the MutationObserver callback: some time before the next timer is due
\* the DOM changes, and the stability timer starts again
MutationObserved ==
    /\ domWait.promise = "pending"
    /\ domWait.observing
    /\ domWait.mutations < MaxMutations
    /\ \E later \in {0, 50, 100, 150, 400} :
          /\ domWait.now + later < NextTimerDue(domWait)
          /\ domWait' = [domWait EXCEPT !.now = @ + later,
                                        !.timer = domWait.now + later + domWait.stabilityMs,
                                        !.mutations = @ + 1]
    /\ UNCHANGED nonDomWaitVars

\* what the callback of the stability timer does to the promise
stabilityTimerSettles == "resolved"

\* the callback of the stability timer: disconnect, clearTimeout(deadline), resolve()
StabilityTimerFires ==
    /\ domWait.promise = "pending"
    /\ domWait.timer >= 0
    /\ domWait.timer = NextTimerDue(domWait)
    /\ domWait' = [domWait EXCEPT !.now = domWait.timer,
                                  !.timer = 0 - 1,
                                  !.deadline = 0 - 1,
                                  !.observing = FALSE,
                                  !.promise = stabilityTimerSettles]
    /\ UNCHANGED nonDomWaitVars

\* the callback of the deadline: disconnect, reject(new Error("dom stability
\* timeout")); the stability timer is left pending and settles nothing later
DeadlineFires ==
    /\ domWait.promise = "pending"
    /\ domWait.deadline >= 0
    /\ domWait.deadline = NextTimerDue(domWait)
    /\ domWait' = [domWait EXCEPT !.now = domWait.deadline,
                                  !.deadline = 0 - 1,
                                  !.observing = FALSE,
                                  !.promise = "rejected"]
    /\ UNCHANGED nonDomWaitVars

\* await page.evaluate(...): the caller goes on, or gets the rejection thrown
DomWaitSettled ==
    /\ domWait.promise \in {"resolved", "rejected"}
    /\ domWait' = [domWait EXCEPT !.promise =
                      IF @ = "resolved" THEN "returned" ELSE "threw"]
    /\ UNCHANGED nonDomWaitVars

DomWaitNext ==
    \/ DomWaitCalled
    \/ MutationObserved
    \/ StabilityTimerFires
    \/ DeadlineFires
    \/ DomWaitSettled

\* ------------------------------------------------------------------------
\* Artifact retention (ArtifactManager of src/store/db.ts)
\* ------------------------------------------------------------------------
\* the names in the base directory, in the order of Array.prototype.sort()
ArtifactNames == <<"s-a", "s-b", "s-c", "s-d">>

Absent == [kind |-> "absent", mtimeMs |-> 0]

\* what a name of the base directory can be: nothing, a file, or a session
\* directory last modified at one of three times
DirectoryEntries ==
    {Absent} \cup [kind : {"file"}, mtimeMs : {1}] \cup [kind : {"directory"}, mtimeMs : {1, 2, 3}]

\* listSessions: the names of the directories, sorted
RECURSIVE listSessionsFrom(_, _)
listSessionsFrom(entries, i) ==
    IF i > Len(ArtifactNames)
    THEN <<>>
    ELSE (IF entries[ArtifactNames[i]].kind = "directory" THEN <<ArtifactNames[i]>> ELSE <<>>)
         \o listSessionsFrom(entries, i + 1)

listSessions(entries) == listSessionsFrom(entries, 1)

RECURSIVE sortByMtime(_, _)
sortByMtime_lexical(entries, sessions) == sessions

\* enforceRetention: .sort((a, b) => aTime - bTime), a stable sort
sortByMtime(entries, sessions) ==
    IF sessions = <<>>
    THEN <<>>
    ELSE LET sorted == sortByMtime(entries, SubSeq(sessions, 1, Len(sessions) - 1))
             last == sessions[Len(sessions)]
             before == { i \in 1..Len(sorted) :
                           entries[sorted[i]].mtimeMs <= entries[last].mtimeMs }
             at == IF before = {} THEN 0 ELSE CHOOSE i \in before : \A j \in before : j <= i
         IN  SubSeq(sorted, 1, at) \o <<last>> \o SubSeq(sorted, at + 1, Len(sorted))

\* deleteSession for each name of toRemove
deleteSessions(entries, toRemove) ==
    [name \in DOMAIN entries |->
        IF \E i \in 1..Len(toRemove) : toRemove[i] = name THEN Absent ELSE entries[name]]

\* enforceRetention: the directory afterwards and the number returned
enforceRetention(entries, maxSessions) ==
    LET sessions == sortByMtime(entries, listSessions(entries))
    IN  IF Len(sessions) <= maxSessions
        THEN [entries |-> entries, returned |-> 0]
        ELSE LET toRemove == SubSeq(sessions, 1, Len(sessions) - maxSessions)
             IN  [entries |-> deleteSessions(entries, toRemove), returned |-> Len(toRemove)]

ArtifactsIdle ==
    artifacts = [before |-> [name \in {} |-> Absent], entries |-> [name \in {} |-> Absent],
                 _maxSessions |-> 0, called |-> FALSE, returned |-> 0]

\* a base directory and an ArtifactManager constructed on it
ArtifactsPending ==
    \E entries \in [{ ArtifactNames[i] : i \in 1..Len(ArtifactNames) } -> DirectoryEntries],
       maxSessions \in 0..MaxSessionsKept :
        artifacts = [before |-> entries, entries |-> entries, _maxSessions |-> maxSessions,
                     called |-> FALSE, returned |-> 0]

\* one call of enforceRetention
EnforceRetentionCall ==
    /\ ~artifacts.called
    /\ LET done == enforceRetention(artifacts.entries, artifacts._maxSessions)
       IN  artifacts' = [artifacts EXCEPT !.entries = done.entries,
                                          !.returned = done.returned,
                                          !.called = TRUE]
    /\ UNCHANGED nonArtifactVars

ArtifactsNext == EnforceRetentionCall

\* ------------------------------------------------------------------------
\* Approval requests (browser_request_approval of src/tools/approval-tools.ts)
\* ------------------------------------------------------------------------
\* JavaScript values, with their typeof
JsBoolean(b) == [type |-> "boolean", value |-> IF b THEN "true" ELSE "false"]
JsUndefined == [type |-> "undefined", value |-> "undefined"]
JsValues ==
    { JsBoolean(TRUE), JsBoolean(FALSE), JsUndefined,
      [type |-> "object", value |-> "null"],
      [type |-> "string", value |-> "true"],
      [type |-> "string", value |-> "yes"],
      [type |-> "number", value |-> "1"],
      [type |-> "number", value |-> "0"] }

\* what ctx.approvalProvider is and does: absent, throws (or rejects), or
\* resolves to a value
ApprovalProviders ==
    [kind : {"absent", "throws"}, returns : {JsUndefined}]
        \cup [kind : {"returns"}, returns : JsValues]

\* process.env["BROWSER_AUTO_APPROVE"]; "unset" is undefined
EnvValues == {"unset", "", "0", "1", "true"}

\* getEnvApproval
getEnvApproval(env) == JsBoolean(env = "1")

\* resolveFallbackApproval
resolveFallbackApproval(autoApprove, env) ==
    IF autoApprove # JsUndefined THEN autoApprove ELSE getEnvApproval(env)

typeofIsBoolean_always(value) == TRUE

\* typeof providerDecision === "boolean"
typeofIsBoolean(value) == value.type = "boolean"

\* execute: the value of approved
approved(provider, autoApprove, env) ==
    IF provider.kind = "absent"
    THEN resolveFallbackApproval(autoApprove, env)
    ELSE IF provider.kind = "returns" /\ typeofIsBoolean(provider.returns)
         THEN provider.returns
         ELSE resolveFallbackApproval(autoApprove, env)

NotRequested == [called |-> FALSE, approved |-> JsUndefined]

ApprovalIdle ==
    approval = [provider |-> [kind |-> "absent", returns |-> JsUndefined],
                autoApprove |-> JsUndefined, env |-> "unset", result |-> NotRequested]

\* a skill context (autoApprove is a boolean when configured) and an environment
ApprovalPending ==
    \E provider \in ApprovalProviders,
       autoApprove \in {JsUndefined, JsBoolean(TRUE), JsBoolean(FALSE)},
       env \in EnvValues :
        approval = [provider |-> provider, autoApprove |-> autoApprove, env |-> env,
                    result |-> NotRequested]

\* one call of browser_request_approval
RequestApproval ==
    /\ ~approval.result.called
    /\ approval' = [approval EXCEPT !.result =
                        [called |-> TRUE,
                         approved |-> approved(approval.provider, approval.autoApprove,
                                               approval.env)]]
    /\ UNCHANGED nonApprovalVars

ApprovalNext == RequestApproval

\* ------------------------------------------------------------------------
\* Action log: sanitizing the input (ActionLog of src/store/action-log)
\* ------------------------------------------------------------------------
\* JSON values: every value has the four fields, of which its tag t says
\* which one counts; an object is a function from its own keys to values
NoFields == [k \in {} |-> 0]
JsonString(text) == [t |-> "string", s |-> text, o |-> NoFields, a |-> <<>>]
JsonNumber(text) == [t |-> "number", s |-> text, o |-> NoFields, a |-> <<>>]
JsonNull == [t |-> "null", s |-> "null", o |-> NoFields, a |-> <<>>]
JsonObject(fields) == [t |-> "object", s |-> "", o |-> fields, a |-> <<>>]
JsonArray(items) == [t |-> "array", s |-> "", o |-> NoFields, a |-> items]
\* an object that is not plain (a Date, a class instance)
JsonInstance(text) == [t |-> "instance", s |-> text, o |-> NoFields, a |-> <<>>]

REDACTED == JsonString("[REDACTED]")

\* the part of DEFAULT_SENSITIVE_KEYS that the inputs use
DEFAULT_SENSITIVE_KEYS == {"password", "token"}
TYPED_TEXT_KEYS == {"text", "value", "fields", "script"}

\* String.prototype.toLowerCase on the keys that occur
toLowerCase(key) ==
    CASE key = "PassWord" -> "password"
      [] key = "Name" -> "name"
      [] key = "Text" -> "text"
      [] OTHER -> key

\* constructor: this._sensitiveInputKeys
sensitiveKeySet(sensitiveInputKeys) ==
    { toLowerCase(key) : key \in DEFAULT_SENSITIVE_KEYS \cup sensitiveInputKeys }

isSensitiveKey_exact(log_, key) == key \in log_._sensitiveInputKeys

\* isSensitiveKey
isSensitiveKey(log_, key) == toLowerCase(key) \in log_._sensitiveInputKeys

\* isTypedTextKey
isTypedTextKey(key) == toLowerCase(key) \in TYPED_TEXT_KEYS

\* sanitizeInput and sanitizeValue
RECURSIVE sanitizeInput(_, _, _)
RECURSIVE sanitizeValue(_, _, _, _)
sanitizeInput(log_, input, parentTypedText) ==
    [key \in DOMAIN input |-> sanitizeValue(log_, input[key], key, parentTypedText)]

sanitizeValue(log_, value, key, parentTypedText) ==
    LET typedText == parentTypedText \/ isTypedTextKey(key)
    IN  IF log_._redactSensitiveInput /\ isSensitiveKey(log_, key)
        THEN REDACTED
        ELSE IF value.t = "string"
        THEN (IF log_._redactTypedText /\ (typedText \/ isTypedTextKey(key))
              THEN REDACTED
              ELSE value)
        ELSE IF value.t \in {"null", "number"}
        THEN value
        ELSE IF value.t = "array"
        THEN JsonArray([i \in 1..Len(value.a) |->
                           sanitizeValue(log_, value.a[i], key, typedText \/ parentTypedText)])
        ELSE IF value.t # "object"
        THEN value
        ELSE JsonObject(sanitizeInput(log_, value.o, typedText \/ parentTypedText))

\* the keys of the inputs
InputKeys == {"PassWord", "name", "Text"}

\* the values of the inputs: leaves, objects of one or two keys over leaves,
\* arrays of one leaf or object or of two leaves
JsonLeaves == {JsonString("hunter2"), JsonNumber("7"), JsonInstance("Date")}
ObjectsOver(values) ==
    UNION { { JsonObject(fields) : fields \in [keys -> values] } :
              keys \in { k \in SUBSET InputKeys : Cardinality(k) \in {1, 2} } }
LeafObjects == ObjectsOver(JsonLeaves)
JsonArrays ==
    { JsonArray(<<item>>) : item \in JsonLeaves \cup LeafObjects }
        \cup { JsonArray(<<x, y>>) : x \in JsonLeaves, y \in JsonLeaves }
LogInputs == ObjectsOver(JsonLeaves \cup LeafObjects \cup JsonArrays)

\* constructor
ActionLogNew(options) ==
    [_redactSensitiveInput |-> options.redactSensitiveInput,
     _redactTypedText |-> options.redactTypedText,
     _sensitiveInputKeys |-> sensitiveKeySet(options.sensitiveInputKeys)]

DefaultActionLogOptions ==
    [redactSensitiveInput |-> TRUE, redactTypedText |-> FALSE, sensitiveInputKeys |-> {}]

ActionLogOptions ==
    [redactSensitiveInput : BOOLEAN, redactTypedText : BOOLEAN,
     sensitiveInputKeys : {{}, {"Name"}}]

ActionLogIdle ==
    actionLog = [log |-> ActionLogNew(DefaultActionLogOptions), input |-> JsonObject(NoFields),
                 logged |-> FALSE, safeInput |-> JsonObject(NoFields)]

\* an action log constructed from the configuration and the input of an action
ActionLogPending ==
    \E options \in ActionLogOptions, input \in LogInputs :
        actionLog = [log |-> ActionLogNew(options), input |-> input,
                     logged |-> FALSE, safeInput |-> JsonObject(NoFields)]

\* log(params): serializeInput stringifies sanitizeInput(params.input); the
\* stringified tree is kept as the tree
LogAction ==
    /\ ~actionLog.logged
    /\ actionLog' = [actionLog EXCEPT
                        !.logged = TRUE,
                        !.safeInput = JsonObject(sanitizeInput(actionLog.log, actionLog.input.o,
                                                               FALSE))]
    /\ UNCHANGED nonActionLogVars

ActionLogNext == LogAction

\* ------------------------------------------------------------------------
\* Actions calling actions on one context (executeAction of
\* src/actions/action, setField and applyFilter of src/actions/semantic)
\* ------------------------------------------------------------------------
\* the actions whose bodies call an action on the context they were given,
\* and the action they call
CalledFromBody == [applyFilter |-> "setField", setField |-> "type", selectAutocomplete |-> "type"]

\* the actions called from outside
ActionNames == {"click", "type", "setField", "selectAutocomplete", "applyFilter"}

\* what the body of an action records on ctx._traceMeta itself
RecordsInBody(name) ==
    CASE name = "type" -> {"waitsPerformed", "selectorResolved", "eventsDispatched"}
      [] name = "click" -> {"waitsPerformed", "selectorResolved", "eventsDispatched"}
      [] OTHER -> {}

NoRetryState == [lastClickSelector |-> "", by |-> 0]

FreshContext ==
    [_traceMeta |-> <<>>, _retryState |-> NoRetryState, running |-> <<>>, calls |-> 0,
     entries |-> <<>>, collected |-> <<>>, remembered |-> <<>>]

NestingIdle == nesting = FreshContext

\* executeAction: ctx._traceMeta = {}; ctx._retryState = {}
resetOnCall(ctx) == [ctx EXCEPT !._traceMeta = <<>>, !._retryState = NoRetryState]

\* the number of the innermost running call and its action
Innermost(ctx) == ctx.running[Len(ctx.running)]

\* executeAction is called: from outside when no action runs on the
\* context, or by the body of the innermost running action
ActionCalled(name) ==
    /\ nesting.calls < MaxActionCalls
    /\ IF nesting.running = <<>>
       THEN name \in ActionNames
       ELSE /\ Innermost(nesting).name \in DOMAIN CalledFromBody
            /\ name = CalledFromBody[Innermost(nesting).name]
            /\ ~Innermost(nesting).calledInner
    /\ nesting' =
          [resetOnCall(nesting) EXCEPT
              !.calls = @ + 1,
              !.running =
                  (IF @ = <<>> THEN @ ELSE [@ EXCEPT ![Len(@)].calledInner = TRUE])
                      \o <<[call |-> nesting.calls + 1, name |-> name, calledInner |-> FALSE]>>,
              !.collected = Append(@, <<>>),
              !.remembered = Append(@, FALSE)]
    /\ UNCHANGED nonNestingVars

\* recordWait, recordSelectorMeta, recordEvent in the body of the innermost
\* running action
BodyRecords(kind) ==
    /\ nesting.running # <<>>
    /\ kind \in RecordsInBody(Innermost(nesting).name)
    /\ Len(nesting.collected[Innermost(nesting).call]) < MaxMetaItems
    /\ LET item == [kind |-> kind, by |-> Innermost(nesting).call]
       IN  nesting' = [nesting EXCEPT !._traceMeta = Append(@, item),
                                      !.collected[Innermost(nesting).call] = Append(@, item)]
    /\ UNCHANGED nonNestingVars

\* the end of the body of click: the click is remembered on ctx._retryState
ClickRemembers ==
    /\ nesting.running # <<>>
    /\ Innermost(nesting).name = "click"
    /\ ~nesting.remembered[Innermost(nesting).call]
    /\ nesting' = [nesting EXCEPT
                      !._retryState = [lastClickSelector |-> "selectorKey",
                                       by |-> Innermost(nesting).call],
                      !.remembered[Innermost(nesting).call] = TRUE]
    /\ UNCHANGED nonNestingVars

\* executeAction returns: recordTraceEntry attaches ctx._traceMeta
ActionReturns ==
    /\ nesting.running # <<>>
    /\ Innermost(nesting).name \in DOMAIN CalledFromBody => Innermost(nesting).calledInner
    /\ nesting' = [nesting EXCEPT
                      !.running = SubSeq(@, 1, Len(@) - 1),
                      !.entries = Append(@, [call |-> Innermost(nesting).call,
                                             action |-> Innermost(nesting).name,
                                             meta |-> nesting._traceMeta])]
    /\ UNCHANGED nonNestingVars

NestingNext ==
    \/ \E name \in ActionNames : ActionCalled(name)
    \/ \E kind \in {"waitsPerformed", "selectorResolved", "eventsDispatched"} : BodyRecords(kind)
    \/ ClickRemembers
    \/ ActionReturns

\* ------------------------------------------------------------------------
\* Specifications
\* ------------------------------------------------------------------------
\* the components modelled one call at a time, never called
MoreIdle == DomWaitIdle /\ ArtifactsIdle /\ ApprovalIdle /\ ActionLogIdle /\ NestingIdle

\* the components modelled on their own, never called
AloneIdle == SelectorIdle /\ ClickIdle /\ TraceIdle /\ MoreIdle

\* an engine that is never called
EngineIdle ==
    /\ opts = [retries |-> <<>>, precondition |-> FALSE, postcondition |-> FALSE,
               chainAttached |-> FALSE]
    /\ selectorStrategies = <<>>
    /\ origStrategies = <<>>
    /\ pageUrl = "about:blank"
    /\ pc = "idle"
    /\ maxRetries = 0
    /\ startUrl = ""
    /\ attempt = 0
    /\ lastError = ""
    /\ lastCaughtError = Undefined
    /\ result = NoResult
    /\ popupDismisser = PopupConstructed
    /\ traceConfigured = FALSE
    /\ recorded = <<>>
    /\ bodyRuns = 0
    /\ attemptsStarted = 0
    /\ lastOutcome = "none"
    /\ typedEarlier = FALSE
    /\ tnfCaught = 0
    /\ urlChanged = FALSE
    /\ bodyRanInAttempt = FALSE
    /\ preStopped = 0

\* a pool that is never used
PoolIdle == PoolInit /\ ~poolProfile

\* one action run on a page, the pool untouched
ActionInit == EngineInit /\ PoolIdle /\ HealthIdle /\ RegistryIdle /\ AloneIdle

SpecAction == ActionInit /\ [][EngineNext]_vars

\* one action whose logger, page or trace may throw inside the try block
SpecActionThrowing == ActionInit /\ [][ThrowingNext]_vars

\* the pool with its callers, its health monitor and its browser
PoolWithIdleEngine == EngineIdle /\ HealthIdle /\ RegistryIdle /\ AloneIdle /\ PoolInit

SpecPool == PoolWithIdleEngine /\ [][PoolNext]_vars

\* the pool in an environment that cooperates: launches and context
\* creations succeed, nobody releases, destroys or shuts down
LiveNext ==
    \/ AcquireCall
    \/ \E i \in DOMAIN acq : AcquireFinish(i)
    \/ \E p \in pendingLaunches : LaunchResolves(p)
    \/ \E b \in connected : BrowserDisconnects(b)
    \/ \E o \in DOMAIN sessionObjs : HealthReportsUnhealthy(o)
    \/ \E o \in DOMAIN sessionObjs : PageCrashes(o)
    \/ \E j \in DOMAIN rec : RecoverSnapshotDone(j)
    \/ \E j \in DOMAIN rec : RecoverClosed(j)
    \/ \E j \in DOMAIN rec : RecoverFinish(j)

\* every promise the pool awaits settles, so every step of the pool's own
\* code that is enabled is taken
LiveFairness ==
    /\ WF_vars(\E i \in DOMAIN acq : AcquireFinish(i))
    /\ WF_vars(\E p \in pendingLaunches : LaunchResolves(p))
    /\ WF_vars(\E j \in DOMAIN rec : RecoverSnapshotDone(j))
    /\ WF_vars(\E j \in DOMAIN rec : RecoverClosed(j))
    /\ WF_vars(\E j \in DOMAIN rec : RecoverFinish(j))

SpecPoolLive == PoolWithIdleEngine /\ [][LiveNext]_vars /\ LiveFairness

\* a caller that loops: await pool.acquire(); await pool.release(session)
CycleAcquire ==
    /\ Len(sessionObjs) < MaxCycles
    /\ held = {} /\ acq = <<>> /\ rem = <<>>
    /\ acquire
    /\ UNCHANGED events

CycleRelease ==
    /\ \E o \in held : removal(o, "release")
    /\ UNCHANGED events

\* the loop on a pool with maxContexts = 1 and a browser that launches,
\* creates contexts and stays connected
CycleNext ==
    \/ CycleAcquire
    \/ \E p \in pendingLaunches : LaunchResolves(p)
    \/ \E i \in DOMAIN acq : AcquireFinish(i)
    \/ CycleRelease
    \/ \E k \in DOMAIN rem : RemovalPersisted(k)

CycleInit == EngineIdle /\ HealthIdle /\ RegistryIdle /\ AloneIdle /\ PoolConstructed(1)

SpecCycle == CycleInit /\ [][CycleNext]_vars

\* the health monitor alone, its onUnhealthy callback counted
HealthInit == EngineIdle /\ PoolIdle /\ RegistryIdle /\ AloneIdle /\ HealthIdle

SpecHealth == HealthInit /\ [][HealthNext]_vars

\* the handle registry of one session and the page it resolves against
HandlesInit == EngineIdle /\ PoolIdle /\ HealthIdle /\ AloneIdle /\ RegistryInit

SpecHandles == HandlesInit /\ [][RegistryNext]_vars

\* the same registry holding several handles of one strategy each
SpecManyHandles == HandlesInit /\ [][ManyHandlesNext]_vars

\* resolveWithConfidence called on its own
SelectorInit ==
    EngineIdle /\ PoolIdle /\ HealthIdle /\ RegistryIdle /\ ClickIdle /\ TraceIdle
    /\ MoreIdle /\ SelectorCallPending

SpecSelector == SelectorInit /\ [][SelectorNext]_vars

\* one call of click
ClickInit ==
    EngineIdle /\ PoolIdle /\ HealthIdle /\ RegistryIdle /\ SelectorIdle /\ TraceIdle
    /\ MoreIdle /\ ClickPending

SpecClick == ClickInit /\ [][ClickNext]_vars

\* one action trace, recorded into and cleared
TraceInit ==
    EngineIdle /\ PoolIdle /\ HealthIdle /\ RegistryIdle /\ SelectorIdle /\ ClickIdle
    /\ MoreIdle /\ TraceConstructed

SpecTrace == TraceInit /\ [][TraceNext]_vars

\* everything but the components modelled one call at a time is idle
RestIdle ==
    EngineIdle /\ PoolIdle /\ HealthIdle /\ RegistryIdle /\ SelectorIdle /\ ClickIdle
    /\ TraceIdle

\* one call of waitForDomStability
DomWaitInit ==
    RestIdle /\ ArtifactsIdle /\ ApprovalIdle /\ ActionLogIdle /\ NestingIdle /\ DomWaitPending

SpecDomWait == DomWaitInit /\ [][DomWaitNext]_vars

\* one call of enforceRetention
ArtifactsInit ==
    RestIdle /\ DomWaitIdle /\ ApprovalIdle /\ ActionLogIdle /\ NestingIdle /\ ArtifactsPending

SpecArtifacts == ArtifactsInit /\ [][ArtifactsNext]_vars

\* one call of browser_request_approval
ApprovalInit ==
    RestIdle /\ DomWaitIdle /\ ArtifactsIdle /\ ActionLogIdle /\ NestingIdle /\ ApprovalPending

SpecApproval == ApprovalInit /\ [][ApprovalNext]_vars

\* one call of log
ActionLogInit ==
    RestIdle /\ DomWaitIdle /\ ArtifactsIdle /\ ApprovalIdle /\ NestingIdle /\ ActionLogPending

SpecActionLog == ActionLogInit /\ [][ActionLogNext]_vars

\* actions called on one context
NestingInit ==
    RestIdle /\ DomWaitIdle /\ ArtifactsIdle /\ ApprovalIdle /\ ActionLogIdle /\ NestingIdle

SpecNesting == NestingInit /\ [][NestingNext]_vars

\* ------------------------------------------------------------------------
\* Properties of the action engine (checked under SpecAction)
\* ------------------------------------------------------------------------
ActionDone == pc = "done" /\ result.set
FailedByGuard == ActionDone /\ lastOutcome = "navGuard"

\* C2: when attempt k >= 1 starts with the page URL different from the URL
\* recorded at action start, the action ends in that very step, the body is
\* not run again, and the result is a failure with code NAVIGATION_INTERRUPTED.
C2_NavigationGuardAborts ==
    [][(pc = "loop" /\ attempt >= 1 /\ attempt <= maxRetries /\ pageUrl # startUrl)
         => /\ pc' = "done"
            /\ bodyRuns' = bodyRuns
            /\ attemptsStarted' = attemptsStarted
            /\ ~result'.ok
            /\ result'.structuredError.code = "NAVIGATION_INTERRUPTED"]_vars

C2_Witness ==
    /\ FailedByGuard
    /\ attempt >= 1
    /\ pageUrl # startUrl
    /\ bodyRuns = attempt
    /\ result.structuredError.code = "NAVIGATION_INTERRUPTED"

\* C3 (as claimed): a failure ended by the navigation guard reports the
\* attempts performed beyond the first, not the configured maximum; when the
\* guard fires before the second attempt, retries is 0.
C3_GuardReportsAttemptsPerformed ==
    FailedByGuard => result.retries = attemptsStarted - 1

\* C4: a successful action reports as retries the number of attempts begun
\* beyond the first, between 0 and the configured maximum.
C4_SuccessRetries ==
    (ActionDone /\ result.ok)
        => /\ result.retries = attemptsStarted - 1
           /\ 0 <= result.retries
           /\ result.retries <= maxRetries

C4_Witness ==
    /\ ActionDone
    /\ result.ok
    /\ result.retries = 2
    /\ maxRetries = DEFAULT_RETRIES

C6_StructuredOnlyFromFinalAttempt ==
    (ActionDone /\ ~result.ok /\ ~FailedByGuard)
        => (result.structuredError # NoStructured <=> lastOutcome = "threwTyped")

C6_Witness ==
    /\ ActionDone
    /\ ~result.ok
    /\ typedEarlier
    /\ lastOutcome \in {"postFalse", "threwUntyped"}
    /\ result.structuredError = NoStructured

\* C7: an attempt whose precondition returned false does not run the body,
\* is followed by another attempt while attempts remain, and as the last
\* attempt yields ok=false with error "precondition failed".
C7_PreconditionFalseSkipsBody ==
    /\ [](lastOutcome = "preFalse" => ~bodyRanInAttempt)
    /\ []((ActionDone /\ lastOutcome = "preFalse")
            => (~result.ok /\ result.error = "precondition failed"))
    /\ [][(lastOutcome = "preFalse" /\ pc = "loop" /\ attempt <= maxRetries
             /\ pageUrl = startUrl) => pc' = "pre"]_vars

C7_Witness ==
    /\ ActionDone
    /\ lastOutcome = "preFalse"
    /\ bodyRuns = 1
    /\ attemptsStarted = 2
    /\ result.error = "precondition failed"

RotateLeft(s, k) ==
    IF s = <<>> THEN s
    ELSE [i \in 1..Len(s) |-> s[((i - 1 + k) % Len(s)) + 1]]

\* C9: with a chain attached, after k caught TargetNotFound errors the chain
\* is the original one rotated left by k; each such catch on a chain of two
\* or more strategies puts a different strategy at the head.
C9_ChainRotatedByFailures ==
    /\ [](opts.chainAttached => selectorStrategies = RotateLeft(origStrategies, tnfCaught))
    /\ [][(opts.chainAttached /\ tnfCaught' = tnfCaught + 1 /\ Len(selectorStrategies) >= 2)
            => /\ Head(selectorStrategies') # Head(selectorStrategies)
               /\ selectorStrategies'[Len(selectorStrategies)] = Head(selectorStrategies)]_vars

C9_Witness ==
    /\ opts.chainAttached
    /\ origStrategies = <<1, 2, 3>>
    /\ tnfCaught = 2
    /\ selectorStrategies = <<3, 1, 2>>

\* ------------------------------------------------------------------------
\* Properties of the browser pool
\* ------------------------------------------------------------------------
\* C1: auto-recovery keeps the session id: once _recoverUnhealthy has pooled
\* a replacement, the replacement has the id of the failed session, so the
\* pool's map still answers for the original id.
C1_RecoveryKeepsSessionId ==
    lastRecovery # <<0, 0>> =>
        sessionObjs[lastRecovery[2]].id = sessionObjs[lastRecovery[1]].id

\* C10: a call of acquire made while the pool holds maxContexts sessions or
\* more rejects with "pool limit reached" and adds nothing: no session is
\* constructed or pooled, no acquire stays in progress, no launch starts.
C10_AcquireRejectsAtLimit ==
    [][(AcquireCall /\ Cardinality(_sessions) >= maxContexts)
        => /\ lastAcquire' = "pool limit reached"
           /\ acq' = acq
           /\ _sessions' = _sessions
           /\ sessionObjs' = sessionObjs
           /\ _tracked' = _tracked
           /\ launchCount' = launchCount]_vars

C10_Witness ==
    /\ lastAcquire = "pool limit reached"
    /\ Cardinality(_sessions) = maxContexts
    /\ acq = <<>>
    /\ events >= maxContexts + 1

\* C11: at most one browser launch is in flight at any time, and every call
\* that waits for the browser waits for that one launch.
C11_SingleLaunchInFlight ==
    /\ Cardinality(pendingLaunches) <= 1
    /\ \A i \in DOMAIN acq : acq[i].pc = "awaitLaunch" => pendingLaunches = {acq[i].launch}
    /\ \A j \in DOMAIN rec : rec[j].pc = "awaitLaunch" => pendingLaunches = {rec[j].launch}

\* ------------------------------------------------------------------------
\* Properties of the health monitor (checked under SpecHealth)
\* ------------------------------------------------------------------------
\* C12: the monitor marks a session unhealthy and calls onUnhealthy for it
\* only when the probe that just failed is at least the maxFailures-th
\* failed probe of that session in a row, and then it does both; a probe
\* that returns a valid readyState sets the session's failure count to zero.
C12_UnhealthyAfterMaxFailures ==
    [][\A o \in DOMAIN sessionObjs :
          /\ unhealthyCalls'[o] # unhealthyCalls[o] =>
                /\ failStreak'[o] >= _maxFailures
                /\ ~sessionObjs'[o].healthy
                /\ unhealthyCalls'[o] = unhealthyCalls[o] + 1
          /\ (ProbeFails(o) /\ sessionObjs[o].healthy /\ ~sessionObjs'[o].healthy) =>
                unhealthyCalls'[o] = unhealthyCalls[o] + 1
          /\ (ProbeFails(o) /\ failStreak'[o] >= _maxFailures) =>
                unhealthyCalls'[o] = unhealthyCalls[o] + 1
          /\ ProbeValid(o) => consecutiveFailures'[o] = 0]_vars

\* a session marked unhealthy and reported once, by its maxFailures-th
\* failed probe in a row
C12_Witness ==
    \E o \in DOMAIN sessionObjs :
        /\ unhealthyCalls[o] = 1
        /\ failStreak[o] = _maxFailures
        /\ consecutiveFailures[o] = _maxFailures
        /\ ~sessionObjs[o].healthy

\* C14: a recovery triggered while the pool is shutting down (by the
\* health monitor or by the browser's disconnected event, also the one
\* shutdown's own browser.close() causes) does nothing: no call of
\* _recoverUnhealthy stays in progress, no session leaves the pool and no
\* session is constructed.
C14_RecoveryIgnoredWhileShuttingDown ==
    [][(/\ _shuttingDown
        /\ \/ \E b \in connected : BrowserDisconnects(b)
           \/ \E o \in DOMAIN sessionObjs : HealthReportsUnhealthy(o)
           \/ ShutdownBrowserClosed)
        => /\ rec' = rec
           /\ _sessions' = _sessions
           /\ Len(sessionObjs') = Len(sessionObjs)]_vars

\* the browser disconnected while shutdown was closing pooled sessions:
\* they are marked unhealthy, still pooled, and nothing recovers them
C14_Witness ==
    /\ _shuttingDown
    /\ shut.pc = "closing"
    /\ shut.closing # {}
    /\ shut.closing = MapValues(_sessions)
    /\ shut.closing = DOMAIN sessionObjs
    /\ \A o \in shut.closing : ~sessionObjs[o].healthy /\ ~sessionObjs[o].closed
    /\ launchCount = 1
    /\ connected = {}
    /\ _browser = 0
    /\ rec = <<>>
    /\ events = Cardinality(shut.closing) + 2

\* C15: shutdown closes every session that was pooled when it was called,
\* then the browser; at the step that completes it the pool holds no
\* browser (status().running = false) and no session (activeSessions = 0).
C15_ShutdownLeavesPoolEmpty ==
    [][/\ (shut.pc = "closing" /\ shut'.pc # "closing") =>
             \A o \in shut.closing : sessionObjs'[o].closed
       /\ (shut.pc # "idle" /\ shut'.pc = "idle") =>
             /\ _browser' = 0
             /\ Cardinality(_sessions') = 0]_vars

\* C16: a release or destroy of a profile-bound session that saves the
\* snapshot saves it from the context while it is still open, in the step
\* before the call closes it; and however the snapshot attempt ends, the
\* completed call leaves the session out of the pool, untracked and closed.
C16_SnapshotBeforeClose ==
    /\ [](lastRemoval.session # 0 =>
            /\ sessionObjs[lastRemoval.session].closed
            /\ ~MapHas(_sessions, sessionObjs[lastRemoval.session].id)
            /\ ~MapHas(_tracked, sessionObjs[lastRemoval.session].id))
    /\ [][\A k \in DOMAIN rem :
            (RemovalPersisted(k) /\ lastRemoval'.saved) =>
                /\ sessionObjs[rem[k].session].profile
                /\ ~sessionObjs[rem[k].session].closed
                /\ profileStore' = rem[k].session
                /\ sessionObjs'[rem[k].session].closed]_vars

\* one profile-bound session was removed with its snapshot saved, a later
\* one with the snapshot failing
C16_Witness ==
    /\ lastRemoval.session # 0
    /\ ~lastRemoval.saved
    /\ sessionObjs[lastRemoval.session].profile
    /\ sessionObjs[lastRemoval.session].closed
    /\ ~MapHas(_sessions, sessionObjs[lastRemoval.session].id)
    /\ profileStore # 0
    /\ profileStore # lastRemoval.session

\* ------------------------------------------------------------------------
\* The acquire/release loop (checked under SpecCycle)
\* ------------------------------------------------------------------------
\* C17: with maxContexts = 1, whenever the looping caller is between a
\* completed release and its next acquire the pool holds no session, no
\* acquire of the loop is rejected, and once launched the browser stays.
C17_NoCapacityLeak ==
    /\ _maxContexts = 1
    /\ (held = {} /\ acq = <<>> /\ rem = <<>>) => Cardinality(_sessions) = 0
    /\ lastAcquire \in {"none", "session"}
    /\ Cardinality(_sessions) <= 1
    /\ sessionObjs # <<>> => BrowserConnected

\* the loop after its last cycle
C17_Witness ==
    /\ Len(sessionObjs) = MaxCycles
    /\ lastRemoval.session = MaxCycles
    /\ held = {} /\ acq = <<>> /\ rem = <<>>
    /\ Cardinality(_sessions) = 0
    /\ lastAcquire = "session"
    /\ BrowserConnected

\* ------------------------------------------------------------------------
\* Properties of the handle registry (checked under SpecHandles)
\* ------------------------------------------------------------------------
\* some strategy of the handle's original selector matches the page
SomeStrategyMatches(handle) ==
    \E i \in DOMAIN handle.selector : handle.selector[i].sel \in matching

\* C18: resolve of a registered handle succeeds whenever at least one
\* strategy of its chain matches the page, wherever that strategy stands in
\* the chain and however many others do not match.
C18_ResolveSucceedsIfAnyMatches ==
    [][\A handleId \in DOMAIN _handles :
          (Resolve(handleId) /\ SomeStrategyMatches(_handles[handleId]))
              => lastResolution'.found]_vars

\* C19: a resolve whose winning strategy differs from the stored one
\* returns remapped = true, stores the winner and adds exactly 1 to
\* remapCount; any other successful resolve returns remapped = false and
\* changes neither.
C19_RemapExactlyOnChange ==
    [][\A handleId \in DOMAIN _handles :
          (Resolve(handleId) /\ lastResolution'.found) =>
              IF ~DeepEqual(lastResolution'.strategy, _handles[handleId].lastStrategy)
              THEN /\ lastResolution'.remapped
                   /\ _handles'[handleId].lastStrategy = lastResolution'.strategy
                   /\ _handles'[handleId].remapCount = _handles[handleId].remapCount + 1
              ELSE /\ ~lastResolution'.remapped
                   /\ _handles'[handleId].lastStrategy = _handles[handleId].lastStrategy
                   /\ _handles'[handleId].remapCount = _handles[handleId].remapCount]_vars

\* a handle whose last resolve remapped it for the second time
C19_Witness ==
    /\ lastResolution.found
    /\ lastResolution.remapped
    /\ lastResolution.handleId \in DOMAIN _handles
    /\ _handles[lastResolution.handleId].remapCount = 2
    /\ _handles[lastResolution.handleId].lastStrategy = lastResolution.strategy

\* C20: remapCount of a registered handle never decreases, and its
\* lastStrategy is always one of the strategies of the selector it was
\* registered with (the strategy itself when it was a single one).
C20_RemapCountMonotoneLastInChain ==
    /\ [](\A handleId \in DOMAIN _handles :
            /\ \E i \in DOMAIN _handles[handleId].selector :
                  _handles[handleId].selector[i] = _handles[handleId].lastStrategy
            /\ ~_handles[handleId].isArray =>
                  _handles[handleId].lastStrategy = _handles[handleId].selector[1])
    /\ [][\A handleId \in DOMAIN _handles \cap DOMAIN _handles' :
            _handles'[handleId].remapCount >= _handles[handleId].remapCount]_vars

\* a handle remapped twice that then resolved again without a remap, on a
\* strategy that is not the first of its chain
C20_Witness ==
    \E handleId \in DOMAIN _handles :
        /\ _handles[handleId].remapCount = 2
        /\ _handles[handleId].lastStrategy # _handles[handleId].selector[1]
        /\ lastResolution.handleId = handleId
        /\ lastResolution.found
        /\ ~lastResolution.remapped

\* C21: resolve on a handle id that was never registered, or that has been
\* released or cleared, fails with STALE_ELEMENT and changes nothing, and
\* releasing one handle leaves every other registered handle in the map
\* with its record unchanged.
C21_UnknownIsStaleReleaseIsLocal ==
    [][/\ \A handleId \in 1..(MaxRegistered + 1) :
            (Resolve(handleId) /\ handleId \notin DOMAIN _handles) =>
                /\ lastResolution'.code = "STALE_ELEMENT"
                /\ ~lastResolution'.found
                /\ _handles' = _handles
       /\ \A handleId \in 1..MaxRegistered :
            ReleaseHandle(handleId) =>
                /\ handleId \notin DOMAIN _handles'
                /\ \A other \in DOMAIN _handles \ {handleId} :
                       /\ other \in DOMAIN _handles'
                       /\ _handles'[other] = _handles[other]]_vars

\* two handles were registered, the first was released and then resolved:
\* the call failed as stale while the second handle is still registered
C21_Witness ==
    /\ handlesMade = 2
    /\ DOMAIN _handles = {2}
    /\ lastResolution.handleId = 1
    /\ lastResolution.code = "STALE_ELEMENT"

\* C22: when a registered handle's element has vanished and no strategy of
\* its chain matches the page, resolve fails with the code STALE_ELEMENT.
C22_VanishedIsStale ==
    [][\A handleId \in DOMAIN _handles :
          (Resolve(handleId) /\ ~SomeStrategyMatches(_handles[handleId])) =>
              /\ ~lastResolution'.found
              /\ lastResolution'.code = "STALE_ELEMENT"]_vars

\* C23: after a resolve that remapped a handle, a following resolve of the
\* same handle with the page unchanged tries the new winner first: it
\* returns remapped = false with strategyIndex 0.
C23_ResolveAfterRemapTriesWinnerFirst ==
    [][\A handleId \in DOMAIN _handles :
          (Resolve(handleId) /\ lastResolution.handleId = handleId /\ lastResolution.remapped) =>
              /\ lastResolution'.found
              /\ ~lastResolution'.remapped
              /\ lastResolution'.strategyIndex = 0
              /\ lastResolution'.strategy = _handles[handleId].lastStrategy]_vars

\* a resolve that followed a remapping resolve of the same handle returned
\* a winner that is not the first strategy of the registered chain
C23_Witness ==
    /\ lastResolution.followsRemap
    /\ lastResolution.found
    /\ lastResolution.handleId \in DOMAIN _handles
    /\ lastResolution.strategy # _handles[lastResolution.handleId].selector[1]
    /\ lastResolution.strategyIndex = 0

\* C24: for an array of strategies resolved with state visible or attached,
\* the strategy returned is the first one in array order that matches
\* (earlier ones, which do not match, are skipped), strategyIndex is its
\* position in the array, and strategyIndex < chainLength.
C24_FirstMatchingStrategyWins ==
    LET call == selectorCall
        r == call.resolution
        chain == call.selector.chain IN
    (call.called /\ call.selector.isArray /\ call.state \in {"visible", "attached"}
     /\ r.found) =>
        /\ r.strategyIndex + 1 \in DOMAIN chain
        /\ r.strategy = chain[r.strategyIndex + 1]
        /\ IF call.state = "visible" THEN r.strategy.sel \in call.page.visible
           ELSE r.strategy.sel \in call.page.attached
        /\ \A j \in 1..r.strategyIndex :
              IF call.state = "visible" THEN chain[j].sel \notin call.page.visible
              ELSE chain[j].sel \notin call.page.attached
        /\ r.chainLength = Len(chain)
        /\ r.strategyIndex < r.chainLength

\* a call for a visible element returned the fourth strategy of its array,
\* an earlier one being attached but not visible
C24_Witness ==
    /\ selectorCall.called
    /\ selectorCall.selector.isArray
    /\ selectorCall.state = "visible"
    /\ selectorCall.resolution.found
    /\ selectorCall.resolution.strategyIndex = 3
    /\ selectorCall.selector.chain[1].sel \in selectorCall.page.attached

\* ------------------------------------------------------------------------
\* Properties of the envelope of an action (checked under SpecAction and
\* SpecActionThrowing)
\* ------------------------------------------------------------------------
\* C25: the popup watcher is started before the first attempt and is
\* stopped on every way the action can end (success, exhausted retries,
\* navigation abort, an exception): while attempts run its sweep timer and
\* its dialog listener are active, afterwards neither is.
C25_PopupWatcherCoversTheAction ==
    /\ (pc \notin {"idle", "done", "threw"}) =>
           (popupDismisser._timer /\ popupDismisser._dialogHandler)
    /\ (attemptsStarted > 0) => pc # "idle"
    /\ (pc \in {"done", "threw"}) =>
           (~popupDismisser._timer /\ ~popupDismisser._dialogHandler)

\* an action that ran attempts ended by an exception, with its watcher stopped
C25_Witness ==
    /\ pc = "threw"
    /\ attemptsStarted > 1
    /\ ~popupDismisser._timer
    /\ ~popupDismisser._dialogHandler

C30_NoDuplicateClickAndSuccess ==
    /\ \A i \in 1..(Len(clicks) - 1) : clicks[i + 1] - clicks[i] >= DEDUP_CLICK_MS
    /\ (clickPc = "done" /\ lastSkipped) => clickOk

\* ------------------------------------------------------------------------
\* Properties of the action trace (checked under SpecTrace)
\* ------------------------------------------------------------------------
LastN(seq, n) == SubSeq(seq, Len(seq) - n + 1, Len(seq))

\* the sessions' buffers hold at most cap entries, and a session that has
\* recorded more than cap entries holds the last cap of them in order
BuffersKeepTheLast(cap) ==
    \A s \in TraceSessions :
        /\ Len(getSessionTrace(trace, s)) <= cap
        /\ Len(recordedFor[s]) > cap => getSessionTrace(trace, s) = LastN(recordedFor[s], cap)

\* C27, as stated: for every cap N (the configured maxEntriesPerSession) and
\* every session s, getSessionTrace(s) never holds more than N entries, and
\* once more than N entries have been recorded for s it holds exactly the N
\* most recently recorded ones in recording order.
C27_BufferHoldsTheLastN == BuffersKeepTheLast(traceOpts.maxEntriesPerSession)

\* C27, amended: the cap in force is max(1, N) for a configured N; for
\* every session s, getSessionTrace(s) never holds more than max(1, N)
\* entries, and once more than max(1, N) entries have been recorded for s
\* it holds exactly the max(1, N) most recently recorded ones in order.
C27_BufferHoldsTheLastOfTheClampedCap ==
    BuffersKeepTheLast(Max(1, traceOpts.maxEntriesPerSession))

\* C27: a session has recorded more entries than a cap of 2 and holds the
\* last two of them.
C27_Witness ==
    /\ traceOpts.maxEntriesPerSession = 2
    /\ \E s \in TraceSessions :
          /\ Len(recordedFor[s]) > 2
          /\ getSessionTrace(trace, s) = LastN(recordedFor[s], 2)
          /\ getSessionTrace(trace, s)[1] # getSessionTrace(trace, s)[2]

\* the entries retained in the per-session buffers
RetainedEntries ==
    getSessionTrace(trace, "s1") \o getSessionTrace(trace, "s2") \o getSessionTrace(trace, "s3")

CountRetained(test(_)) == Cardinality({ i \in 1..Len(RetainedEntries) : test(RetainedEntries[i]) })

\* C28: after any sequence of record calls, the aggregate statistics returned
\* by stats() (total, ok and failed counts, per-action counts, retries
\* total) equal the values computed from scratch over only the entries
\* currently retained in the per-session buffers.
C28_AggregatesReflectRetainedEntries ==
    LET isOk(e) == e.ok
        isFailed(e) == ~e.ok
        reported == stats(trace)
    IN  /\ reported.actionsTotal = Len(RetainedEntries)
        /\ reported.actionsByOutcome.ok = CountRetained(isOk)
        /\ reported.actionsByOutcome.failed = CountRetained(isFailed)
        /\ \A a \in TraceActions :
              LET isA(e) == e.action = a
              IN  reported.actionsByType[a] = CountRetained(isA)
        /\ reported.retriesTotal =
              SumSeq([i \in 1..Len(RetainedEntries) |-> RetainedEntries[i].retries])

\* C28: only record was called, an entry of a session has been shifted out,
\* the retained entries are of both kinds and stats() counts them alone.
C28_Witness ==
    /\ traceOps.clears = 0
    /\ lastTraceOp.op = "record"
    /\ \E s \in TraceSessions : Len(recordedFor[s]) > Len(getSessionTrace(trace, s))
    /\ stats(trace).actionsByOutcome.ok > 0
    /\ stats(trace).actionsByOutcome.failed > 0
    /\ stats(trace).actionsTotal = Len(RetainedEntries)
    /\ stats(trace).actionsTotal < traceOps.calls

\* C29: after clearSession(id), the session has no entries and stats()
\* (counts, retries total and duration percentiles) equals what the same
\* trace would report had the cleared session's entries never been recorded.
C29_ClearIsAsIfNeverRecorded ==
    lastTraceOp.op = "clear" =>
        /\ getSessionTrace(trace, lastTraceOp.sessionId) = <<>>
        /\ stats(trace) = stats(withoutSession[lastTraceOp.sessionId])

\* ------------------------------------------------------------------------
\* Properties of waitForDomStability (checked under SpecDomWait)
\* ------------------------------------------------------------------------
\* C31: waitForDomStability completes normally when either the stability
\* timer or the hard deadline fires, whichever comes first; it never
\* throws into the action that called it.
C31_DomWaitNeverThrows ==
    /\ domWait.promise # "threw"
    /\ domWait.promise # "rejected"

\* ------------------------------------------------------------------------
\* Properties of artifact retention (checked under SpecArtifacts)
\* ------------------------------------------------------------------------
SessionDirs(entries) == { name \in DOMAIN entries : entries[name].kind = "directory" }

\* C32: for every artifact directory holding more than maxSessions session
\* directories, after enforceRetention exactly maxSessions remain and they
\* are the ones with the most recent modification times (no removed
\* directory was modified after a retained one; nothing else is touched).
C32_RetentionKeepsMostRecent ==
    (artifacts.called /\ Cardinality(SessionDirs(artifacts.before)) > artifacts._maxSessions) =>
        /\ Cardinality(SessionDirs(artifacts.entries)) = artifacts._maxSessions
        /\ SessionDirs(artifacts.entries) \subseteq SessionDirs(artifacts.before)
        /\ \A kept \in SessionDirs(artifacts.entries),
              gone \in SessionDirs(artifacts.before) \ SessionDirs(artifacts.entries) :
              artifacts.before[kept].mtimeMs >= artifacts.before[gone].mtimeMs
        /\ \A name \in DOMAIN artifacts.entries :
              artifacts.entries[name] \in {Absent, artifacts.before[name]}
        /\ \A name \in DOMAIN artifacts.entries :
              artifacts.before[name].kind = "file" => artifacts.entries[name] = artifacts.before[name]

\* C32: enforceRetention ran on a directory with four session directories
\* and a cap of two, whose two most recent sessions come first in name
\* order, and kept those two.
C32_Witness ==
    /\ artifacts.called
    /\ artifacts._maxSessions = 2
    /\ SessionDirs(artifacts.before) = {"s-a", "s-b", "s-c", "s-d"}
    /\ artifacts.before["s-a"].mtimeMs = 3
    /\ artifacts.before["s-b"].mtimeMs = 2
    /\ artifacts.before["s-c"].mtimeMs = 1
    /\ artifacts.before["s-d"].mtimeMs = 1
    /\ SessionDirs(artifacts.entries) = {"s-a", "s-b"}
    /\ artifacts.returned = 2

\* ------------------------------------------------------------------------
\* Properties of approval requests (checked under SpecApproval)
\* ------------------------------------------------------------------------
\* C33: the approval decision is always a boolean and is resolved in this
\* order: a boolean returned by the injected provider is final; if the
\* provider is absent, throws, or returns a non-boolean, the configured
\* autoApprove value is used when set, otherwise the decision is whether
\* BROWSER_AUTO_APPROVE equals "1".
C33_ApprovalOrder ==
    approval.result.called =>
        /\ approval.result.approved \in {JsBoolean(TRUE), JsBoolean(FALSE)}
        /\ approval.result.approved =
              (IF approval.provider.kind = "returns"
                  /\ approval.provider.returns \in {JsBoolean(TRUE), JsBoolean(FALSE)}
               THEN approval.provider.returns
               ELSE IF approval.autoApprove # JsUndefined
               THEN approval.autoApprove
               ELSE JsBoolean(approval.env = "1"))

\* C33: a provider returned the string "true", autoApprove is not
\* configured and BROWSER_AUTO_APPROVE is "true": the request was decided
\* and not approved.
C33_Witness ==
    /\ approval.result.called
    /\ approval.provider = [kind |-> "returns", returns |-> [type |-> "string", value |-> "true"]]
    /\ approval.autoApprove = JsUndefined
    /\ approval.env = "true"
    /\ approval.result.approved = JsBoolean(FALSE)

\* ------------------------------------------------------------------------
\* Properties of the action log (checked under SpecActionLog)
\* ------------------------------------------------------------------------
\* a key matches the sensitive-key set, compared case-insensitively
MatchesSensitive(key) ==
    \E sensitive \in actionLog.log._sensitiveInputKeys : toLowerCase(key) = toLowerCase(sensitive)

\* in the persisted value, every value under a sensitive key is "[REDACTED]",
\* at every depth of plain objects and arrays
RECURSIVE SensitiveRedacted(_, _)
SensitiveRedacted(given, persisted) ==
    IF given.t = "object" /\ persisted.t = "object"
    THEN /\ DOMAIN persisted.o = DOMAIN given.o
         /\ \A key \in DOMAIN given.o :
               IF MatchesSensitive(key)
               THEN persisted.o[key] = REDACTED
               ELSE SensitiveRedacted(given.o[key], persisted.o[key])
    ELSE IF given.t = "array" /\ persisted.t = "array"
    THEN /\ Len(persisted.a) = Len(given.a)
         /\ \A i \in 1..Len(given.a) : SensitiveRedacted(given.a[i], persisted.a[i])
    ELSE TRUE

\* in the persisted value, the values under the other keys are the given
\* ones, at every depth of plain objects and arrays
RECURSIVE SiblingsUnchanged(_, _)
SiblingsUnchanged(given, persisted) ==
    IF given.t = "object"
    THEN /\ persisted.t = "object"
         /\ DOMAIN persisted.o = DOMAIN given.o
         /\ \A key \in DOMAIN given.o :
               MatchesSensitive(key) \/ SiblingsUnchanged(given.o[key], persisted.o[key])
    ELSE IF given.t = "array"
    THEN /\ persisted.t = "array"
         /\ Len(persisted.a) = Len(given.a)
         /\ \A i \in 1..Len(given.a) : SiblingsUnchanged(given.a[i], persisted.a[i])
    ELSE persisted = given

C39_TraceMetaIsTheActionsOwn ==
    \A i \in 1..Len(nesting.entries) :
        nesting.entries[i].meta = nesting.collected[nesting.entries[i].call]

\* ------------------------------------------------------------------------
\* Properties of the pool's concurrent calls (checked under SpecPool)
\* ------------------------------------------------------------------------
\* C35: under any interleaving of concurrent acquire, release, destroy and
\* auto-recovery, the number of sessions held by the pool never exceeds
\* maxContexts.
C35_SessionsNeverExceedMaxContexts ==
    Cardinality(_sessions) <= _maxContexts

\* the session objects created to replace the session object o
ReplacementsOf(o) == { r \in DOMAIN sessionObjs : history.replaces[r] = o }

\* C36: one unhealthy session yields at most one replacement, however
\* often it is reported unhealthy: at most one session object is ever
\* created in its place, and the pool holds at most one.
C36_AtMostOneReplacement ==
    \A o \in DOMAIN sessionObjs :
        /\ Cardinality(ReplacementsOf(o)) <= 1
        /\ Cardinality(ReplacementsOf(o) \cap MapValues(_sessions)) <= 1

\* C37: once release(s) or destroy(s.id) has completed, the pool never
\* afterwards contains a session created to replace s.
C37_NoStandInAfterRemoval ==
    \A o \in history.removed : ReplacementsOf(o) \cap MapValues(_sessions) = {}

\* C38: from the moment shutdown() resolves until acquire is called again
\* the pool holds no session and no browser (running = false,
\* activeSessions = 0).
C38_EmptyAfterShutdownResolves ==
    history.shutdownResolved =>
        /\ _browser = 0
        /\ Cardinality(_sessions) = 0

\* ------------------------------------------------------------------------
\* Liveness of the pool (checked under SpecPoolLive)
\* ------------------------------------------------------------------------
\* the session object o is pooled and not healthy while the pool is not
\* shutting down
PooledUnhealthy(o) ==
    /\ o \in DOMAIN sessionObjs
    /\ o \in MapValues(_sessions)
    /\ ~sessionObjs[o].healthy
    /\ ~_shuttingDown

\* the pool holds a healthy replacement made for the session object o
HealthyReplacementPooled(o) ==
    /\ lastRecovery[1] = o
    /\ lastRecovery[2] \in MapValues(_sessions)
    /\ sessionObjs[lastRecovery[2]].healthy

\* C13: whenever a pooled session is unhealthy and the pool is not shutting
\* down, the pool eventually holds a healthy replacement for it.
C13_UnhealthyEventuallyReplaced ==
    \A o \in 1..MaxEvents : PooledUnhealthy(o) ~> HealthyReplacementPooled(o)

====
